---- MODULE Spec2Model ----
(***************************************************************************)
(* The IPC bridge of the VS Code API MCP extension: IPCServer (listener)   *)
(* and IPCClient (caller) of bridge/ipc.ts, exchanging newline-terminated  *)
(* JSON frames over a local stream socket, with handleVSCodeRequest as the *)
(* request handler.                                                        *)
(*                                                                         *)
(* Text.  A byte string or a character string is a sequence of pieces.  A  *)
(* piece is a string that stands for                                       *)
(*   - one line terminator "\n", one space " ",                            *)
(*   - one byte of a UTF-8 multi-byte sequence ("C3", "A9", ...),          *)
(*   - one non-ASCII character ("U+00E9", "U+FFFD"), or                    *)
(*   - a run of one or more ASCII characters other than those.             *)
(* The transport cuts the byte stream around a line terminator or a space  *)
(* and around and inside a multi-byte sequence.  Both decoders treat all   *)
(* characters of adjacent runs alike, so a cut between or inside adjacent  *)
(* runs is the cut at their end.                                           *)
(***************************************************************************)
EXTENDS Integers, Sequences, FiniteSets

\* Bounds of the model
MaxEvents == 2      \* inputs of a run: IPCClient.request calls of all clients,
                    \* segments written by a non-conforming peer, data events that
                    \* carry only a part of the bytes in flight
MaxFrames == 2      \* messages of a stream in the framing specification

Conns == {"c1", "c2"}   \* connections: one IPCClient each, accepted by the one IPCServer

NL == "\n"
SP == " "
QUOTE == "\""
E9 == "U+00E9"      \* a character whose UTF-8 encoding has two bytes, C3 A9
FFFD == "U+FFFD"    \* the replacement character
GARBAGE == "{bad"   \* a run of ASCII characters that is no JSON text

LeadBytes == {"C3", "EF"}
ContBytes == {"A9", "BF", "BD"}

\* socket.write(string): the string's UTF-8 bytes
Utf8Encode[s \in Seq(STRING)] ==
  IF s = <<>> THEN <<>>
  ELSE (IF Head(s) = E9 THEN <<"C3", "A9">>
        ELSE IF Head(s) = FFFD THEN <<"EF", "BF", "BD">>
        ELSE <<Head(s)>>) \o Utf8Encode[Tail(s)]

\* data.toString(): Buffer.toString('utf8') of ONE chunk.  A complete sequence is
\* its character; a lead byte whose sequence is cut by the end of the chunk, and a
\* continuation byte without its lead byte, each decode to U+FFFD.
ToString[b \in Seq(STRING)] ==
  IF b = <<>> THEN <<>>
  ELSE IF Head(b) = "C3" /\ Len(b) >= 2 /\ b[2] = "A9"
    THEN <<E9>> \o ToString[SubSeq(b, 3, Len(b))]
  ELSE IF Head(b) = "EF" /\ Len(b) >= 3 /\ b[2] = "BF" /\ b[3] = "BD"
    THEN <<FFFD>> \o ToString[SubSeq(b, 4, Len(b))]
  ELSE IF Head(b) = "EF" /\ Len(b) >= 2 /\ b[2] = "BF"
    THEN <<FFFD>> \o ToString[SubSeq(b, 3, Len(b))]
  ELSE IF Head(b) \in LeadBytes \cup ContBytes
    THEN <<FFFD>> \o ToString[Tail(b)]
  ELSE <<Head(b)>> \o ToString[Tail(b)]

\* the places where the model lets a chunk end: after the n-th piece of a stream
IsRun(p) == p \notin {NL, SP, E9, FFFD} \cup LeadBytes \cup ContBytes
CutAt(stream, n) ==
  /\ n \in 1..Len(stream)
  /\ n < Len(stream) => ~(IsRun(stream[n]) /\ IsRun(stream[n + 1]))

(***************************************************************************)
(* JSON values, JSON.stringify and JSON.parse                              *)
(***************************************************************************)
\* JSON values of the model: strings (a sequence of characters), the empty
\* object, and JavaScript's undefined
Str(s) == [t |-> "string", s |-> s]
EmptyObject == [t |-> "object", s |-> <<>>]
Undefined == [t |-> "undefined", s |-> <<>>]

Methods == {"executeCommand", "unknownMethod"}
\* the cases of the switch in handleVSCodeRequest (the one the model uses)
KnownMethods == {"executeCommand"}

HELLO == <<"hello">>                  \* the string "hello"
CAFE == <<"caf", E9>>                 \* a string with a non-ASCII character
FAILURE == <<"Unable to open caf", E9>>   \* a failure message with such a character
TWO_LINES == <<"a", NL, "b">>         \* a string with a line terminator in it
UnknownMethod(method) == <<"Unknown method: ", method>>

\* the pieces JSON.stringify puts around the values of a request and a response
ID == "{\"id\":\""
METHOD == "\",\"method\":\""
PARAMS == "\",\"params\":"
RESULT == "\",\"result\":"
ERROR == "\",\"error\":{\"message\":"
END_ID == "\"}"
END == "}"
END_ERROR == "}}"
EMPTY_OBJECT == "{}"
ESCAPED_NL == "\\n"
Punctuation ==
  {ID, METHOD, PARAMS, RESULT, ERROR, END_ID, END, END_ERROR, EMPTY_OBJECT, QUOTE,
   GARBAGE, NL, SP} \cup LeadBytes \cup ContBytes

\* JSON.stringify of a string's characters: a line terminator inside a string is
\* written as the two ASCII characters \n; other characters are written as they are
Escape[s \in Seq(STRING)] ==
  IF s = <<>> THEN <<>>
  ELSE <<IF Head(s) = NL THEN ESCAPED_NL ELSE Head(s)>> \o Escape[Tail(s)]

Unescape[s \in Seq(STRING)] ==
  IF s = <<>> THEN <<>>
  ELSE <<IF Head(s) = ESCAPED_NL THEN NL ELSE Head(s)>> \o Unescape[Tail(s)]

\* a defective variant: the characters of a string are written as they are
StringTextRaw(s) == <<QUOTE>> \o s \o <<QUOTE>>

\* JSON.stringify of a string
StringText(s) == <<QUOTE>> \o Escape[s] \o <<QUOTE>>


\* JSON.stringify(v) of a value that is not undefined
ValueText(v) == IF v.t = "object" THEN <<EMPTY_OBJECT>> ELSE StringText(v.s)

\* JSON.stringify(request), request = { id, method, params }
RequestText(r) == <<ID, r.id, METHOD, r.method, PARAMS>> \o ValueText(r.params) \o <<END>>

\* JSON.stringify(response).  response is { id, result } or { id, error: { message } };
\* a property whose value is undefined is left out of the text.
ResponseText(r) ==
  IF r.kind = "error" THEN <<ID, r.id, ERROR>> \o StringText(r.val.s) \o <<END_ERROR>>
  ELSE IF r.val = Undefined THEN <<ID, r.id, END_ID>>
  ELSE <<ID, r.id, RESULT>> \o ValueText(r.val) \o <<END>>

TrimEnd[s \in Seq(STRING)] ==
  IF s # <<>> /\ s[Len(s)] = SP THEN TrimEnd[SubSeq(s, 1, Len(s) - 1)] ELSE s
\* line.trim()
Trim[s \in Seq(STRING)] == IF s # <<>> /\ Head(s) = SP THEN Trim[Tail(s)] ELSE TrimEnd[s]

\* a defective variant: an id that does not come from the counter
IdFixed(n) == "1"

\* String(n) for the values the request counter takes
IdOf(n) == <<"0", "1", "2", "3", "4", "5", "6", "7", "8", "9">>[n + 1]

Ids == {IdOf(n) : n \in 0..MaxEvents}

NoRequest == [id |-> "", method |-> "", params |-> Undefined]
NoResponse == [id |-> "", kind |-> "", val |-> Undefined]

\* a JSON text of a value of the model: {} or a string
IsValueText(t) ==
  \/ t = <<EMPTY_OBJECT>>
  \/ /\ Len(t) >= 2 /\ t[1] = QUOTE /\ t[Len(t)] = QUOTE
     /\ \A i \in 2..(Len(t) - 1) : t[i] \notin Punctuation
ParseValue(t) ==
  IF t = <<EMPTY_OBJECT>> THEN EmptyObject ELSE Str(Unescape[SubSeq(t, 2, Len(t) - 1)])

\* JSON.parse(line) read as an IPCRequest, for a text without white space around
\* it; a text that is no JSON throws (ok = FALSE)
ParseRequestText[t \in Seq(STRING)] ==
    IF /\ Len(t) >= 7 /\ t[1] = ID /\ t[2] \notin Punctuation /\ t[3] = METHOD
       /\ t[4] \notin Punctuation /\ t[5] = PARAMS /\ t[Len(t)] = END
       /\ IsValueText(SubSeq(t, 6, Len(t) - 1))
      THEN [ok |-> TRUE,
            val |-> [id |-> t[2], method |-> t[4],
                     params |-> ParseValue(SubSeq(t, 6, Len(t) - 1))]]
      ELSE [ok |-> FALSE, val |-> NoRequest]
\* JSON.parse(line): white space around the text is allowed
ParseRequest(line) == ParseRequestText[Trim[line]]

\* JSON.parse(line) read as an IPCResponse, for a text without white space around
\* it; a text without "result" and "error" is an object whose result is undefined
ParseResponseText[t \in Seq(STRING)] ==
    IF Len(t) = 3 /\ t[1] = ID /\ t[2] \notin Punctuation /\ t[3] = END_ID
      THEN [ok |-> TRUE, val |-> [id |-> t[2], kind |-> "result", val |-> Undefined]]
    ELSE IF /\ Len(t) >= 5 /\ t[1] = ID /\ t[2] \notin Punctuation /\ t[3] = RESULT
            /\ t[Len(t)] = END /\ IsValueText(SubSeq(t, 4, Len(t) - 1))
      THEN [ok |-> TRUE,
            val |-> [id |-> t[2], kind |-> "result",
                     val |-> ParseValue(SubSeq(t, 4, Len(t) - 1))]]
    ELSE IF /\ Len(t) >= 6 /\ t[1] = ID /\ t[2] \notin Punctuation /\ t[3] = ERROR
            /\ t[Len(t)] = END_ERROR /\ IsValueText(SubSeq(t, 4, Len(t) - 1))
            /\ t[4] = QUOTE
      THEN [ok |-> TRUE,
            val |-> [id |-> t[2], kind |-> "error",
                     val |-> ParseValue(SubSeq(t, 4, Len(t) - 1))]]
    ELSE [ok |-> FALSE, val |-> NoResponse]
\* JSON.parse(line): white space around the text is allowed
ParseResponse(line) == ParseResponseText[Trim[line]]

(***************************************************************************)
(* Framing: the first statements of both 'data' handlers                   *)
(***************************************************************************)
\* buffer.split('\n'): the segments between line terminators, at least one
Split[s \in Seq(STRING)] ==
  IF \A i \in 1..Len(s) : s[i] # NL THEN <<s>>
  ELSE LET k == CHOOSE i \in 1..Len(s) : s[i] = NL /\ \A j \in 1..(i - 1) : s[j] # NL
       IN <<SubSeq(s, 1, k - 1)>> \o Split[SubSeq(s, k + 1, Len(s))]

\* a defective variant: the incomplete last segment is forgotten (buffer = '')
RemainderForgotten(lines) == <<>>

\* buffer = lines.pop() || ''
Remainder(lines) == lines[Len(lines)]

\* buffer += data.toString(); lines = buffer.split('\n'); buffer = lines.pop() || ''
Lines[segs \in Seq(Seq(STRING))] ==
  [lines |-> SubSeq(segs, 1, Len(segs) - 1), buffer |-> Remainder(segs)]
Decode(buffer, data) == Lines[Split[buffer \o ToString[data]]]

\* a defective variant: the test for a blank line is missing
BlankNever(line) == FALSE

\* !line.trim()
Blank(line) == Trim[line] = <<>>

(***************************************************************************)
(* State                                                                   *)
(***************************************************************************)
VARIABLES
  socket,           \* IPCClient.socket of each client: "null" or "set"
  requestId,        \* IPCClient.requestId
  pendingRequests,  \* IPCClient.pendingRequests: the ids that have a continuation
  clientBuffer,     \* IPCClient.buffer
  buffer,           \* IPCServer: the variable buffer of each accepted connection
  calls,            \* IPCServer: the invocations of the async 'data' handler that are
                    \* suspended at  await this.handler(...),  per connection: the
                    \* request awaited and the lines of the chunk still to process
  conn,             \* the transport: "none", "connecting", "open", "closing" (dead,
                    \* 'close' not yet emitted at the client) or "closed"
  toServer,         \* bytes in flight from the client to the listener
  toClient,         \* bytes in flight from the listener to the client
  serverLog,        \* history: what the listener did on each connection, in order
  clientLog,        \* history: what each client did, in order
  injected,         \* history: segments written by a non-conforming peer
  splits,           \* history: data events that carried a part of the bytes in flight
  fr,               \* the framing specification's state: a stream and a decoder
  VSCODE_IPC_HOOK,  \* stdio adapter: process.env.VSCODE_IPC_HOOK, "" when unset or empty
  ipcClient,        \* stdio adapter: the cached IPCClient, "null" or a connection
  clients,          \* stdio adapter: the IPCClient objects constructed
  tool,             \* stdio adapter: the tool invocations, each with its position,
                    \* the client getIPCClient gave it and the text of its result
  platform,         \* extension: process.platform, "win32" or "posix"
  ipcServer,        \* extension: the module variable of each extension host, 0 (null)
                    \* or an IPCServer object
  httpMcpServer,    \* extension: likewise, 0 (null) or an HttpMcpServer object
  objects,          \* the IPCServer and HttpMcpServer objects constructed, each with
                    \* its field server, 0 (null) or a net.Server / http.Server
  netServers,       \* the net.Server and http.Server objects created
  entry,            \* the filesystem entry at the socket path: 0 (absent) or the
                    \* net.Server whose bind created it
  answers,          \* what the outward faces answered: tool calls of the two
                    \* adapters, HTTP requests, requests given to handleVSCodeRequest
  lastCall          \* extension: the last start or stop invoked and how it went

vars == <<socket, requestId, pendingRequests, clientBuffer, buffer, calls, conn,
          toServer, toClient, serverLog, clientLog, injected, splits, fr,
          VSCODE_IPC_HOOK, ipcClient, clients, tool,
          platform, ipcServer, httpMcpServer, objects, netServers, entry, answers,
          lastCall>>
extensionVars ==
  <<platform, ipcServer, httpMcpServer, objects, netServers, entry, answers, lastCall>>
adapterVars == <<VSCODE_IPC_HOOK, ipcClient, clients, tool>>
bridgeVars == <<socket, requestId, pendingRequests, clientBuffer, buffer, calls, conn,
                toServer, toClient, serverLog, clientLog, injected, splits>>

\* an entry of serverLog or clientLog
Ev(e, id, kind, val, on, text) ==
  [e |-> e, id |-> id, kind |-> kind, val |-> val, on |-> on, text |-> text]

NoFraming == [side |-> "", msgs |-> <<>>, rest |-> <<>>, rx |-> <<>>,
              buffer |-> <<>>, lines |-> <<>>, out |-> <<>>]

InitBridge ==
  /\ socket = [c \in Conns |-> "null"]
  /\ requestId = [c \in Conns |-> 0]
  /\ pendingRequests = [c \in Conns |-> {}]
  /\ clientBuffer = [c \in Conns |-> <<>>]
  /\ buffer = [c \in Conns |-> <<>>]
  /\ calls = [c \in Conns |-> <<>>]
  /\ conn = [c \in Conns |-> "none"]
  /\ toServer = [c \in Conns |-> <<>>]
  /\ toClient = [c \in Conns |-> <<>>]
  /\ serverLog = [c \in Conns |-> <<>>]
  /\ clientLog = [c \in Conns |-> <<>>]
  /\ injected = 0
  /\ splits = 0

Tools == {"t1", "t2"}    \* tool invocations of the stdio adapter
NoCall == [pc |-> "idle", client |-> "null", id |-> "", isError |-> FALSE, text |-> <<>>]

\* the stdio adapter's module state before any tool was invoked
InitAdapter ==
  /\ ipcClient = "null"
  /\ clients = {}
  /\ tool = [t \in Tools |-> NoCall]

Hosts == {"w1", "w2"}    \* extension hosts (windows), each running the extension
NoOp == [n |-> 0, host |-> "", op |-> "", kind |-> "", outcome |-> "", started |-> 0]

\* the extension's module state before activation; nothing is bound
InitExtension ==
  /\ ipcServer = [h \in Hosts |-> 0]
  /\ httpMcpServer = [h \in Hosts |-> 0]
  /\ objects = <<>>
  /\ netServers = <<>>
  /\ entry = 0
  /\ answers = <<>>
  /\ lastCall = NoOp

Init ==
  /\ InitBridge /\ fr = NoFraming /\ InitAdapter /\ VSCODE_IPC_HOOK = ""
  /\ InitExtension /\ platform = "posix"

(***************************************************************************)
(* The framing specification: a sequence of messages, written as           *)
(* newline-terminated JSON, reaches one decoder in chunks cut anywhere     *)
(***************************************************************************)
FrameMessages(side) ==
  IF side = "server"
    THEN {[id |-> "1", method |-> "readFile", params |-> v] :
            v \in {EmptyObject, Str(CAFE), Str(TWO_LINES)}}
    ELSE {[id |-> "1", kind |-> "result", val |-> Str(HELLO)],
          [id |-> "2", kind |-> "result", val |-> Str(CAFE)],
          [id |-> "2", kind |-> "error", val |-> Str(UnknownMethod("unknownMethod"))],
          [id |-> "3", kind |-> "result", val |-> Str(TWO_LINES)],
          [id |-> "3", kind |-> "error", val |-> Str(TWO_LINES)]}

MessageText(side, m) == IF side = "server" THEN RequestText(m) ELSE ResponseText(m)

RECURSIVE Wire(_, _)
\* the bytes of the messages, each written as  JSON.stringify(m) + '\n'
Wire(side, msgs) ==
  IF msgs = <<>> THEN <<>>
  ELSE Utf8Encode[MessageText(side, Head(msgs)) \o <<NL>>] \o Wire(side, Tail(msgs))

RECURSIVE Delivered(_, _)
\* the decode results of the lines of one chunk: what the loop of the 'data'
\* handler hands on, blank lines skipped and unparsable lines dropped
Delivered(side, lines) ==
  IF lines = <<>> THEN <<>>
  ELSE LET p == IF side = "server" THEN ParseRequest(Head(lines))
                ELSE ParseResponse(Head(lines))
       IN (IF Blank(Head(lines)) \/ ~p.ok THEN <<>> ELSE <<p.val>>)
            \o Delivered(side, Tail(lines))

SeqsUpTo(S, n) == UNION {[1..k -> S] : k \in 1..n}

InitFraming ==
  /\ InitBridge /\ InitAdapter /\ VSCODE_IPC_HOOK = ""
  /\ InitExtension /\ platform = "posix"
  /\ \E side \in {"server", "client"} : \E msgs \in SeqsUpTo(FrameMessages(side), MaxFrames) :
       fr = [side |-> side, msgs |-> msgs, rest |-> Wire(side, msgs), rx |-> <<>>,
             buffer |-> <<>>, lines |-> <<>>, out |-> <<>>]

\* one 'data' event with the next n bytes of the stream
FrameData(n) ==
  /\ CutAt(fr.rest, n)
  /\ \E data \in {SubSeq(fr.rest, 1, n)} : \E d \in {Decode(fr.buffer, data)} :
        fr' = [fr EXCEPT !.rest = SubSeq(fr.rest, n + 1, Len(fr.rest)),
                         !.rx = fr.rx \o data,
                         !.buffer = d.buffer,
                         !.lines = fr.lines \o d.lines,
                         !.out = fr.out \o Delivered(fr.side, d.lines)]
  /\ UNCHANGED <<bridgeVars, adapterVars, extensionVars>>

NextFraming == \E n \in 1..Len(fr.rest) : FrameData(n)

SpecFraming == InitFraming /\ [][NextFraming]_vars

RECURSIVE Sum(_, _)
Sum(f, S) == IF S = {} THEN 0 ELSE LET x == CHOOSE y \in S : TRUE IN f[x] + Sum(f, S \ {x})

\* the inputs the run has had
Events ==
  Sum(requestId, Conns) + injected + splits

(***************************************************************************)
(* IPCServer                                                               *)
(***************************************************************************)
RECURSIVE AdvanceUntilMalformed(_)
\* a defective variant: a line JSON.parse throws on ends the loop, and the lines
\* after it in the chunk are never looked at
AdvanceUntilMalformed(lines) ==
  IF lines = <<>> THEN [found |-> FALSE, req |-> NoRequest, rest |-> <<>>, log |-> <<>>]
  ELSE IF Blank(Head(lines)) THEN AdvanceUntilMalformed(Tail(lines))
  ELSE IF ~ParseRequest(Head(lines)).ok
    THEN [found |-> FALSE, req |-> NoRequest, rest |-> <<>>,
          log |-> <<Ev("drop", "", "", Undefined, "", <<>>)>>]
  ELSE [found |-> TRUE, req |-> ParseRequest(Head(lines)).val, rest |-> Tail(lines),
        log |-> <<Ev("dispatch", ParseRequest(Head(lines)).val.id,
                     ParseRequest(Head(lines)).val.method,
                     ParseRequest(Head(lines)).val.params, "", <<>>)>>]

\* a defective variant: the loop takes the requests of a chunk from the last frame
\* to the first
AdvanceLastFirst(lines) ==
  LET found == {i \in 1..Len(lines) : ~Blank(lines[i]) /\ ParseRequest(lines[i]).ok}
  IN IF found = {} THEN [found |-> FALSE, req |-> NoRequest, rest |-> <<>>, log |-> <<>>]
     ELSE LET k == CHOOSE i \in found : \A j \in found : j <= i
              p == ParseRequest(lines[k])
          IN [found |-> TRUE, req |-> p.val, rest |-> SubSeq(lines, 1, k - 1),
              log |-> <<Ev("dispatch", p.val.id, p.val.method, p.val.params, "", <<>>)>>]

RECURSIVE Advance(_)
\* for (const line of lines) { ... }  from the line it stands at up to the next
\*  await this.handler(request.method, request.params):  blank lines are skipped,
\* a line JSON.parse throws on is logged by console.error and the loop goes on
Advance(lines) ==
  IF lines = <<>> THEN [found |-> FALSE, req |-> NoRequest, rest |-> <<>>, log |-> <<>>]
  ELSE IF Blank(Head(lines)) THEN Advance(Tail(lines))
  ELSE LET p == ParseRequest(Head(lines)) IN
    IF ~p.ok
      THEN LET a == Advance(Tail(lines))
           IN [a EXCEPT !.log = <<Ev("drop", "", "", Undefined, "", <<>>)>> \o a.log]
      ELSE [found |-> TRUE, req |-> p.val, rest |-> Tail(lines),
            log |-> <<Ev("dispatch", p.val.id, p.val.method, p.val.params, "", <<>>)>>]

\* this.handler(method, params), a RequestHandler: how the returned promise can
\* settle.  handleVSCodeRequest throws for a method outside its switch; for the
\* others it resolves with a value, or with undefined (executeCommand of a command
\* that returns nothing, getConfig of a key that is not set), or rejects with the
\* editor's failure.
HandlerOutcomes(method) ==
  IF method \notin KnownMethods
    THEN {[kind |-> "error", val |-> Str(UnknownMethod(method))]}
  ELSE {[kind |-> "result", val |-> Str(HELLO)], [kind |-> "result", val |-> Undefined],
        [kind |-> "error", val |-> Str(FAILURE)]}

\* a defective variant: a failure of the handler is answered as a result
MakeResultAlways(request, outcome) ==
  [id |-> request.id, kind |-> "result", val |-> Undefined]

\* response = { id: request.id, result }  or  { id: request.id, error: { message } }
MakeResponse(request, outcome) ==
  [id |-> request.id, kind |-> outcome.kind, val |-> outcome.val]

\* a defective variant: one socket variable shared by the connection callbacks, so
\* that a response goes to another connection
SharedSocket(c) == CHOOSE d \in Conns : d # c

\* the socket the response is written to: the one of the connection callback
ReplySocket(c) == c

RemoveAt(s, i) == SubSeq(s, 1, i - 1) \o SubSeq(s, i + 1, Len(s))

\* a defective variant: one buffer variable outside the connection callback, which
\* the 'data' handlers of all connections append to
SharedBuffer(c) == "c1"

\* let buffer = '' in the connection callback: the buffer that the 'data' handler
\* of connection c reads and assigns is the one of its own closure
BufferOf(c) == c

\* socket.on('data', async (data) => ...) up to its first await, or to its end
ServerData(c, n) ==
  /\ conn[c] = "open"
  /\ CutAt(toServer[c], n)
  /\ n < Len(toServer[c]) => Events < MaxEvents
  /\ \E d \in {Decode(buffer[BufferOf(c)], SubSeq(toServer[c], 1, n))} :
       \E a \in {Advance(d.lines)} :
        /\ buffer' = [buffer EXCEPT ![BufferOf(c)] = d.buffer]
        /\ calls' = [calls EXCEPT ![c] =
                       IF a.found THEN Append(@, [req |-> a.req, rest |-> a.rest]) ELSE @]
        /\ serverLog' = [serverLog EXCEPT ![c] = @ \o a.log]
  /\ splits' = IF n < Len(toServer[c]) THEN splits + 1 ELSE splits
  /\ toServer' = [toServer EXCEPT ![c] = SubSeq(@, n + 1, Len(@))]
  /\ UNCHANGED <<socket, requestId, pendingRequests, clientBuffer, conn, toClient,
                 clientLog, injected, fr, adapterVars, extensionVars>>

\* a defective variant: the frame is written in parts, and its bytes get among
\* those of the frame written before it
WriteInParts(stream, text) ==
  IF stream = <<>> THEN Utf8Encode[text]
  ELSE SubSeq(stream, 1, Len(stream) - 1) \o Utf8Encode[text] \o <<stream[Len(stream)]>>

\* socket.write(JSON.stringify(response) + '\n'): one call with the whole frame,
\* whose bytes the stream takes after those written before
Write(stream, text) == stream \o Utf8Encode[text]

\* the promise of this.handler(...) settles: the suspended invocation builds the
\* response, writes it, and goes on with the lines left of its chunk
HandlerSettle(c, i, outcome) ==
  /\ i \in 1..Len(calls[c])
  /\ outcome \in HandlerOutcomes(calls[c][i].req.method)
  /\ \E call \in {calls[c][i]} : \E response \in {MakeResponse(call.req, outcome)} :
       \E text \in {ResponseText(response) \o <<NL>>} : \E to \in {ReplySocket(c)} :
       \E a \in {Advance(call.rest)} :
        /\ toClient' = [toClient EXCEPT ![to] =
                          IF conn[to] = "open" THEN Write(@, text) ELSE @]
        /\ serverLog' = [serverLog EXCEPT ![c] =
                           @ \o <<Ev("done", call.req.id, outcome.kind, outcome.val, "", <<>>),
                                  Ev("write", call.req.id, "", Undefined, to, text)>>
                             \o a.log]
        /\ calls' = [calls EXCEPT ![c] =
                       IF a.found THEN [@ EXCEPT ![i] = [req |-> a.req, rest |-> a.rest]]
                       ELSE RemoveAt(@, i)]
  /\ UNCHANGED <<socket, requestId, pendingRequests, clientBuffer, buffer, conn,
                 toServer, clientLog, injected, splits, fr, adapterVars, extensionVars>>

(***************************************************************************)
(* IPCClient                                                               *)
(***************************************************************************)
CONNECTION_CLOSED == <<"Connection closed">>
RequestParams == {EmptyObject}


\* connect(): the socket is created; the listener accepts it with a fresh buffer
Connect(c) ==
  /\ socket[c] = "null"
  /\ conn[c] = "none"
  /\ socket' = [socket EXCEPT ![c] = "set"]
  /\ conn' = [conn EXCEPT ![c] = "open"]
  /\ buffer' = [buffer EXCEPT ![c] = <<>>]
  /\ UNCHANGED <<requestId, pendingRequests, clientBuffer, calls, toServer, toClient,
                 serverLog, clientLog, injected, splits, fr, adapterVars, extensionVars>>

\* if (!this.socket) of request()
NotConnected(sock) == sock = "null"

\* a defective variant: the frame is written while the continuation is not yet
\* in the table, so that the response can arrive before its registration
SetAfterWrite(pend, id) == pend

\* this.pendingRequests.set(id, { resolve, reject }), made before the write
Set(pend, id) == pend \cup {id}

\* request(method, params) on the client c; bytes written while the socket is
\* connecting are kept by the socket and sent once it is connected
IssueRequest(c, method, params) ==
  /\ ~NotConnected(socket[c])
  /\ Events < MaxEvents
  /\ \E id \in {IdOf(requestId[c] + 1)} :
       \E request \in {[id |-> id, method |-> method, params |-> params]} :
        /\ requestId' = [requestId EXCEPT ![c] = @ + 1]
        /\ pendingRequests' = [pendingRequests EXCEPT ![c] = Set(@, id)]
        /\ toServer' = [toServer EXCEPT ![c] =
                          IF conn[c] \in {"connecting", "open"}
                            THEN @ \o Utf8Encode[RequestText(request) \o <<NL>>] ELSE @]
  /\ UNCHANGED <<socket, clientBuffer, buffer, calls, conn, toClient, serverLog,
                 clientLog, injected, splits, fr>>

\* a caller of the bridge issues a request
Request(c, method, params) ==
  /\ IssueRequest(c, method, params)
  /\ UNCHANGED <<adapterVars, extensionVars>>

\* a defective variant: a response whose id is unknown is given to a continuation
\* that is waiting
GetAny(pend, response) ==
  IF response.id \in pend THEN response.id
  ELSE IF pend = {} THEN "" ELSE CHOOSE id \in pend : TRUE

\* a defective variant: the oldest continuation is taken, whatever the id
GetOldest(pend, response) ==
  IF pend = {} THEN ""
  ELSE IdOf(CHOOSE n \in 0..MaxEvents :
              IdOf(n) \in pend /\ \A m \in 0..(n - 1) : IdOf(m) \notin pend)

\* a defective variant: the entry is left in the table
DeleteNothing(pend, id) == pend

\* const pending = this.pendingRequests.get(response.id): the key whose
\* continuation is fetched, "" when there is none
Get(pend, response) == IF response.id \in pend THEN response.id ELSE ""

\* a defective variant: with the answered entry the others are given up too
DeleteAll(pend, id) == {}

\* this.pendingRequests.delete(response.id)
Delete(pend, id) == pend \ {id}


RECURSIVE ClientLoop(_, _, _)
\* for (const line of lines) { ... } of the client's 'data' handler
ClientLoop(lines, pend, log) ==
  IF lines = <<>> THEN [pending |-> pend, log |-> log]
  ELSE IF Blank(Head(lines)) THEN ClientLoop(Tail(lines), pend, log)
  ELSE LET p == ParseResponse(Head(lines)) IN
    IF ~p.ok
      THEN ClientLoop(Tail(lines), pend, Append(log, Ev("drop", "", "", Undefined, "", <<>>)))
    ELSE LET response == p.val
             key == Get(pend, response)
             rx == Ev("rx", response.id, response.kind, response.val, "", <<>>)
         IN IF key # ""
              THEN ClientLoop(Tail(lines), Delete(pend, response.id),
                     log \o <<rx, Ev("settle", key,
                                     IF response.kind = "error" THEN "reject" ELSE "resolve",
                                     response.val, "response", <<>>)>>)
              ELSE ClientLoop(Tail(lines), pend,
                     log \o <<rx, Ev("ignore", response.id, "", Undefined, "", <<>>)>>)

\* this.socket.on('data', (data) => ...)
ClientData(c, n) ==
  /\ conn[c] = "open"
  /\ CutAt(toClient[c], n)
  /\ n < Len(toClient[c]) => Events < MaxEvents
  /\ \E d \in {Decode(clientBuffer[c], SubSeq(toClient[c], 1, n))} :
       \E r \in {ClientLoop(d.lines, pendingRequests[c], clientLog[c])} :
        /\ clientBuffer' = [clientBuffer EXCEPT ![c] = d.buffer]
        /\ pendingRequests' = [pendingRequests EXCEPT ![c] = r.pending]
        /\ clientLog' = [clientLog EXCEPT ![c] = r.log]
  /\ splits' = IF n < Len(toClient[c]) THEN splits + 1 ELSE splits
  /\ toClient' = [toClient EXCEPT ![c] = SubSeq(@, n + 1, Len(@))]
  /\ UNCHANGED <<socket, requestId, buffer, calls, conn, toServer, serverLog,
                 injected, fr, adapterVars, extensionVars>>

\* a defective variant: the loop ends after the first continuation
RejectFirst(pend, n, last) ==
  IF pend = {} THEN <<>>
  ELSE <<Ev("settle", CHOOSE id \in pend : TRUE, "reject", Str(CONNECTION_CLOSED),
            "close", <<>>)>>

RECURSIVE RejectAll(_, _, _)
\* for (const [id, pending] of this.pendingRequests) { pending.reject(...); delete }
\* in the order of insertion, which is the order of the counter
RejectAll(pend, n, last) ==
  IF n > last THEN <<>>
  ELSE (IF IdOf(n) \in pend
          THEN <<Ev("settle", IdOf(n), "reject", Str(CONNECTION_CLOSED), "close", <<>>)>>
          ELSE <<>>) \o RejectAll(pend, n + 1, last)

\* this.socket.on('close', () => ...)
ClientClose(c) ==
  /\ conn[c] = "closing"
  /\ conn' = [conn EXCEPT ![c] = "closed"]
  /\ clientLog' = [clientLog EXCEPT ![c] = @ \o RejectAll(pendingRequests[c], 1, requestId[c])]
  /\ pendingRequests' = [pendingRequests EXCEPT ![c] = {}]
  /\ UNCHANGED <<socket, requestId, clientBuffer, buffer, calls, toServer, toClient,
                 serverLog, injected, splits, fr, adapterVars, extensionVars>>

(***************************************************************************)
(* The transport and a non-conforming peer                                 *)
(***************************************************************************)
\* the connection ends (an end of stream or an error); bytes in flight are lost
TransportFail(c) ==
  /\ conn[c] = "open"
  /\ conn' = [conn EXCEPT ![c] = "closing"]
  /\ toServer' = [toServer EXCEPT ![c] = <<>>]
  /\ toClient' = [toClient EXCEPT ![c] = <<>>]
  /\ UNCHANGED <<socket, requestId, pendingRequests, clientBuffer, buffer, calls,
                 serverLog, clientLog, injected, splits, fr, adapterVars, extensionVars>>

Writes(c) == {k \in 1..Len(serverLog[c]) : serverLog[c][k].e = "write"}

\* bytes the listener receives that IPCClient.request did not write
RawToServer(c, seg) ==
  /\ conn[c] = "open"
  /\ Events < MaxEvents
  /\ seg \in {<<GARBAGE, NL>>, <<SP, NL>>}
  /\ injected' = injected + 1
  /\ toServer' = [toServer EXCEPT ![c] = @ \o seg]
  /\ UNCHANGED <<socket, requestId, pendingRequests, clientBuffer, buffer, calls, conn,
                 toClient, serverLog, clientLog, splits, fr, adapterVars, extensionVars>>

\* bytes the client receives that IPCServer did not write after a handler's
\* completion: an invalid or blank segment, a response with an id the client never
\* used, or a frame the listener wrote before, once more
RawSegments(c) ==
  {<<GARBAGE, NL>>, <<SP, NL>>,
   Utf8Encode[ResponseText([id |-> IdOf(0), kind |-> "result", val |-> Str(HELLO)]) \o <<NL>>]}
    \cup {Utf8Encode[serverLog[c][k].text] : k \in Writes(c)}

RawToClient(c, seg) ==
  /\ conn[c] = "open"
  /\ Events < MaxEvents
  /\ seg \in RawSegments(c)
  /\ injected' = injected + 1
  /\ toClient' = [toClient EXCEPT ![c] = @ \o seg]
  /\ UNCHANGED <<socket, requestId, pendingRequests, clientBuffer, buffer, calls, conn,
                 toServer, serverLog, clientLog, splits, fr, adapterVars, extensionVars>>

Next ==
  \E c \in Conns :
    \/ Connect(c)
    \/ \E m \in Methods : \E p \in RequestParams : Request(c, m, p)
    \/ \E n \in 1..Len(toServer[c]) : ServerData(c, n)
    \/ \E i \in 1..Len(calls[c]) :
         \E o \in HandlerOutcomes(calls[c][i].req.method) : HandlerSettle(c, i, o)
    \/ \E n \in 1..Len(toClient[c]) : ClientData(c, n)
    \/ ClientClose(c)
    \/ TransportFail(c)
    \/ \E seg \in {<<GARBAGE, NL>>, <<SP, NL>>} : RawToServer(c, seg)
    \/ \E seg \in RawSegments(c) : RawToClient(c, seg)

Spec == Init /\ [][Next]_vars

\* a callback of the event loop that is ready to run: a 'data' event for bytes in
\* flight, the continuation of a handler invocation, a 'close' event
Callback ==
  \E c \in Conns :
    \/ \E n \in 1..Len(toServer[c]) : ServerData(c, n)
    \/ \E n \in 1..Len(toClient[c]) : ClientData(c, n)
    \/ \E i \in 1..Len(calls[c]) :
         \E o \in HandlerOutcomes(calls[c][i].req.method) : HandlerSettle(c, i, o)
    \/ ClientClose(c)

\* what the code's scheduling guarantees: the event loops run the callbacks that
\* are ready; and (the assumption under which C1 is stated) every handler
\* invocation terminates
Fairness == WF_vars(Callback)

LiveSpec == Init /\ [][Next]_vars /\ Fairness

(***************************************************************************)
(* The stdio adapter: getIPCClient, callVSCode and a tool's callback        *)
(***************************************************************************)
SOCKET_PATH == "sock"     \* a non-empty value of VSCODE_IPC_HOOK
NOT_SET ==
  <<"VSCODE_IPC_HOOK environment variable not set. Is the VS Code extension running?">>
NOT_CONNECTED == <<"Not connected">>
CONNECT_FAILED == <<"connect ENOENT">>    \* the message of the socket's error
SUCCESSFULLY == <<"Command executed successfully">>

\* a defective variant: on a failure the call is made again
Retry(call, message) ==
  IF call.client = "null"
    THEN [call EXCEPT !.pc = "returned", !.isError = TRUE, !.text = <<"Error: ">> \o message]
    ELSE [call EXCEPT !.pc = "got"]

\* catch (error) { return { content: [{ type: 'text', text: `Error: ...` }], isError: true } }
ErrorResult(call, message) ==
  [call EXCEPT !.pc = "returned", !.isError = TRUE, !.text = <<"Error: ">> \o message]

\* return { content: [{ type: 'text', text: JSON.stringify(result, null, 2) || '...' }] }
TextResult(call, result) ==
  [call EXCEPT !.pc = "returned", !.isError = FALSE,
               !.text = IF result = Undefined THEN SUCCESSFULLY ELSE ValueText(result)]

\* a defective variant: the cached client is never used
HasClientNever(client) == FALSE

\* if (ipcClient)
HasClient(client) == client # "null"

\* a defective variant: a missing endpoint is not noticed
NoEndpointNever(socketPath) == FALSE

\* if (!socketPath)
NoEndpoint(socketPath) == socketPath = ""

\* the tool's callback runs callVSCode, which runs getIPCClient up to its return or
\* to the await of connect(), whose first statement creates the socket
CallVSCode(t) ==
  /\ tool[t].pc = "idle"
  /\ IF HasClient(ipcClient)
       THEN /\ tool' = [tool EXCEPT ![t].pc = "got", ![t].client = ipcClient]
            /\ UNCHANGED <<ipcClient, clients, socket, conn>>
     ELSE IF NoEndpoint(VSCODE_IPC_HOOK)
       THEN /\ tool' = [tool EXCEPT ![t] = ErrorResult(@, NOT_SET)]
            /\ UNCHANGED <<ipcClient, clients, socket, conn>>
     ELSE \E c \in Conns \ clients :
            /\ clients' = clients \cup {c}
            /\ ipcClient' = c
            /\ socket' = [socket EXCEPT ![c] = "set"]
            /\ conn' = [conn EXCEPT ![c] = "connecting"]
            /\ tool' = [tool EXCEPT ![t].pc = "connecting", ![t].client = c]
  /\ UNCHANGED <<VSCODE_IPC_HOOK, requestId, pendingRequests, clientBuffer, buffer, calls,
                 toServer, toClient, serverLog, clientLog, injected, splits, fr,
                 extensionVars>>

\* the listener accepts the connection with a fresh buffer; connect() resolves and
\* getIPCClient returns to the callers that await it
ConnectOk(c) ==
  /\ conn[c] = "connecting"
  /\ conn' = [conn EXCEPT ![c] = "open"]
  /\ buffer' = [buffer EXCEPT ![c] = <<>>]
  /\ tool' = [t \in Tools |->
               IF tool[t].pc = "connecting" /\ tool[t].client = c
                 THEN [tool[t] EXCEPT !.pc = "got"] ELSE tool[t]]
  /\ UNCHANGED <<VSCODE_IPC_HOOK, ipcClient, clients, socket, requestId, pendingRequests,
                 clientBuffer, calls, toServer, toClient, serverLog, clientLog,
                 injected, splits, fr, extensionVars>>

\* no listener at the endpoint: this.socket.on('error', (err) => reject(err)); the
\* bytes the socket kept are lost and 'close' follows
ConnectFail(c) ==
  /\ conn[c] = "connecting"
  /\ conn' = [conn EXCEPT ![c] = "closing"]
  /\ toServer' = [toServer EXCEPT ![c] = <<>>]
  /\ tool' = [t \in Tools |->
               IF tool[t].pc = "connecting" /\ tool[t].client = c
                 THEN ErrorResult(tool[t], CONNECT_FAILED) ELSE tool[t]]
  /\ UNCHANGED <<VSCODE_IPC_HOOK, ipcClient, clients, socket, requestId, pendingRequests,
                 clientBuffer, buffer, calls, toClient, serverLog, clientLog,
                 injected, splits, fr, extensionVars>>

\* return client.request<T>(method, params) of callVSCode
ToolRequest(t) ==
  /\ tool[t].pc = "got"
  /\ \E c \in {tool[t].client} :
       IF socket[c] = "null"
         THEN /\ tool' = [tool EXCEPT ![t] = ErrorResult(@, NOT_CONNECTED)]
              /\ UNCHANGED <<bridgeVars, fr>>
         ELSE /\ IssueRequest(c, "executeCommand", EmptyObject)
              /\ tool' = [tool EXCEPT ![t].pc = "issued", ![t].id = IdOf(requestId[c] + 1)]
  /\ UNCHANGED <<VSCODE_IPC_HOOK, ipcClient, clients, extensionVars>>

\* the request's promise is settled: the callback returns a result or an error result
ToolReturn(t) ==
  /\ tool[t].pc = "issued"
  /\ \E c \in {tool[t].client} :
       \E k \in 1..Len(clientLog[c]) :
         /\ clientLog[c][k].e = "settle"
         /\ clientLog[c][k].id = tool[t].id
         /\ tool' = [tool EXCEPT ![t] =
                       IF clientLog[c][k].kind = "reject"
                         THEN ErrorResult(@, clientLog[c][k].val.s)
                         ELSE TextResult(@, clientLog[c][k].val)]
  /\ UNCHANGED <<bridgeVars, fr, VSCODE_IPC_HOOK, ipcClient, clients, extensionVars>>

InitStdio ==
  /\ InitBridge /\ fr = NoFraming /\ InitAdapter
  /\ InitExtension /\ platform = "posix"
  /\ VSCODE_IPC_HOOK \in {"", SOCKET_PATH}

NextStdio ==
  \/ \E t \in Tools : CallVSCode(t)
  \/ \E t \in Tools : ToolRequest(t)
  \/ \E t \in Tools : ToolReturn(t)
  \/ \E c \in Conns :
       \/ ConnectOk(c)
       \/ ConnectFail(c)
       \/ \E n \in 1..Len(toServer[c]) : ServerData(c, n)
       \/ \E i \in 1..Len(calls[c]) :
            \E o \in HandlerOutcomes(calls[c][i].req.method) : HandlerSettle(c, i, o)
       \/ \E n \in 1..Len(toClient[c]) : ClientData(c, n)
       \/ ClientClose(c)
       \/ TransportFail(c)

SpecStdio == InitStdio /\ [][NextStdio]_vars

(***************************************************************************)
(* The extension: startIPCServer, stopIPCServer, startHttpServer,           *)
(* stopHttpServer, and the start and stop of IPCServer and HttpMcpServer.   *)
(* Every extension host uses the same default socket path and port.        *)
(***************************************************************************)
MaxCalls == 4       \* start and stop invocations in a behaviour
MaxObjects == 3     \* IPCServer and HttpMcpServer objects constructed

Kinds == {"ipc", "http"}

\* the module variable ipcServer or httpMcpServer of the host h
Field(h, kind) == IF kind = "ipc" THEN ipcServer[h] ELSE httpMcpServer[h]

\* a defective variant: the guard is missing
RunningNever(object) == FALSE

\* if (ipcServer), if (httpMcpServer)
Running(object) == object # 0

\* the address is free for a bind: no entry at the socket path, no listener on
\* the named pipe (win32), no listener on the port
Free(kind) ==
  IF kind = "ipc" /\ platform # "win32"
    THEN entry = 0
    ELSE \A n \in 1..Len(netServers) :
           ~(netServers[n].kind = kind /\ netServers[n].state = "listening")

\* a server of the kind is listening
ActiveListener(kind) ==
  \E n \in 1..Len(netServers) :
    netServers[n].kind = kind /\ netServers[n].state = "listening"

\* if (process.platform !== 'win32') { try { fs.unlinkSync(this.socketPath) } catch {} }
Unlink(kind) == IF kind = "ipc" /\ platform # "win32" THEN 0 ELSE entry

Call(h, op, kind, outcome, started) ==
  [n |-> lastCall.n + 1, host |-> h, op |-> op, kind |-> kind, outcome |-> outcome,
   started |-> started]

\* startIPCServer() and startHttpServer() up to their await: the guard, the
\* construction and the synchronous part of the object's start(), which creates
\* the net.Server or http.Server and asks it to listen
StartServer(h, kind) ==
  /\ lastCall.n < MaxCalls
  /\ IF Running(Field(h, kind))
       THEN /\ lastCall' = Call(h, "start", kind, "return", 0)
            /\ UNCHANGED <<ipcServer, httpMcpServer, objects, netServers, entry>>
       ELSE /\ Len(objects) < MaxObjects
            /\ \E i \in {Len(objects) + 1} : \E n \in {Len(netServers) + 1} :
                 /\ objects' = Append(objects, [kind |-> kind, server |-> n])
                 /\ netServers' = Append(netServers, [kind |-> kind, state |-> "binding"])
                 /\ entry' = Unlink(kind)
                 /\ ipcServer' = IF kind = "ipc" THEN [ipcServer EXCEPT ![h] = i]
                                                ELSE ipcServer
                 /\ httpMcpServer' = IF kind = "http" THEN [httpMcpServer EXCEPT ![h] = i]
                                                     ELSE httpMcpServer
                 /\ lastCall' = Call(h, "start", kind, "await", i)
  /\ UNCHANGED <<bridgeVars, fr, adapterVars, answers, platform>>

startIPCServer(h) == StartServer(h, "ipc")
startHttpServer(h) == StartServer(h, "http")

\* the bind succeeds: the callback of listen resolves the promise of start()
ListenOk(n) ==
  /\ netServers[n].state = "binding"
  /\ Free(netServers[n].kind)
  /\ netServers' = [netServers EXCEPT ![n].state = "listening"]
  /\ entry' = IF netServers[n].kind = "ipc" /\ platform # "win32" THEN n ELSE entry
  /\ UNCHANGED <<bridgeVars, fr, adapterVars, answers, platform, ipcServer, httpMcpServer,
                 objects, lastCall>>

\* the address is in use: this.server.on('error', reject), start() rejects and the
\* awaiting startIPCServer or startHttpServer throws
ListenFail(n) ==
  /\ netServers[n].state = "binding"
  /\ ~Free(netServers[n].kind)
  /\ netServers' = [netServers EXCEPT ![n].state = "failed"]
  /\ UNCHANGED <<bridgeVars, fr, adapterVars, answers, platform, ipcServer, httpMcpServer,
                 objects, entry, lastCall>>

\* a defective variant: closing the server destroys the connections it accepted
Sever(connections) ==
  [c \in Conns |-> IF connections[c] = "open" THEN "closing" ELSE connections[c]]

\* this.server.close(): the server stops accepting; the sockets it accepted are
\* not touched
AfterClose(connections) == connections

\* stopIPCServer() and stopHttpServer(), with stop() of the object: closing a
\* listening server removes the entry at the path it was bound to. The
\* connections are those the host's IPCServer accepted; the stop is noted in the
\* listener's log of each.
StopServer(h, kind) ==
  /\ lastCall.n < MaxCalls
  /\ IF Running(Field(h, kind))
       THEN /\ \E i \in {Field(h, kind)} : \E n \in {objects[i].server} :
                 IF n # 0
                   THEN /\ netServers' = [netServers EXCEPT ![n].state = "closed"]
                        /\ entry' = IF netServers[n].state = "listening"
                                      THEN Unlink(kind) ELSE entry
                        /\ objects' = [objects EXCEPT ![i].server = 0]
                   ELSE UNCHANGED <<netServers, entry, objects>>
            /\ ipcServer' = IF kind = "ipc" THEN [ipcServer EXCEPT ![h] = 0]
                                           ELSE ipcServer
            /\ httpMcpServer' = IF kind = "http" THEN [httpMcpServer EXCEPT ![h] = 0]
                                                ELSE httpMcpServer
            /\ lastCall' = Call(h, "stop", kind, "stopped", 0)
       ELSE /\ lastCall' = Call(h, "stop", kind, "nothing", 0)
            /\ UNCHANGED <<ipcServer, httpMcpServer, objects, netServers, entry>>
  /\ conn' = IF Running(Field(h, kind)) /\ kind = "ipc" THEN AfterClose(conn) ELSE conn
  /\ serverLog' = IF Running(Field(h, kind)) /\ kind = "ipc"
                    THEN [c \in Conns |->
                           IF conn[c] = "open"
                             THEN Append(serverLog[c], Ev("stop", "", "", Undefined, "", <<>>))
                             ELSE serverLog[c]]
                    ELSE serverLog
  /\ UNCHANGED <<socket, requestId, pendingRequests, clientBuffer, buffer, calls,
                 toServer, toClient, clientLog, injected, splits, fr, adapterVars,
                 answers, platform>>

stopIPCServer(h) == StopServer(h, "ipc")
stopHttpServer(h) == StopServer(h, "http")

InitHosts ==
  /\ InitBridge /\ fr = NoFraming /\ InitAdapter /\ VSCODE_IPC_HOOK = ""
  /\ InitExtension
  /\ platform \in {"posix", "win32"}

NextHosts ==
  \/ \E h \in Hosts :
       \/ startIPCServer(h)
       \/ startHttpServer(h)
       \/ stopIPCServer(h)
       \/ stopHttpServer(h)
  \/ \E n \in 1..Len(netServers) : ListenOk(n)
  \/ \E n \in 1..Len(netServers) : ListenFail(n)

SpecHosts == InitHosts /\ [][NextHosts]_vars

(***************************************************************************)
(* One listener and its callers: the extension host w1 starts and stops its *)
(* IPCServer while a client connects to it and issues requests              *)
(***************************************************************************)
\* net.createConnection(socketPath) succeeds when a server listens at the path
Accept(c) ==
  /\ ActiveListener("ipc")
  /\ Connect(c)

InitListener ==
  /\ InitBridge /\ fr = NoFraming /\ InitAdapter /\ VSCODE_IPC_HOOK = ""
  /\ InitExtension
  /\ platform \in {"posix", "win32"}

\* the host starts its server once and stops it once
NextListener ==
  \/ objects = <<>> /\ startIPCServer("w1")
  \/ ipcServer["w1"] # 0 /\ stopIPCServer("w1")
  \/ \E n \in 1..Len(netServers) : ListenOk(n)
  \/ \E c \in {"c1"} :
       \/ Accept(c)
       \/ \E m \in Methods : \E p \in RequestParams : Request(c, m, p)
       \/ \E n \in 1..Len(toServer[c]) : ServerData(c, n)
       \/ \E i \in 1..Len(calls[c]) :
            \E o \in HandlerOutcomes(calls[c][i].req.method) : HandlerSettle(c, i, o)
       \/ \E n \in 1..Len(toClient[c]) : ClientData(c, n)

SpecListener == InitListener /\ [][NextListener]_vars
LiveListener == InitListener /\ [][NextListener]_vars /\ Fairness

(***************************************************************************)
(* The outward faces: the tools the two adapters register, the routing of   *)
(* the HTTP server, and handleVSCodeRequest's treatment of its params       *)
(***************************************************************************)
MaxAnswers == 1     \* tool calls, HTTP requests and handler requests in a behaviour

\* case '...' of handleVSCodeRequest
Catalog ==
  {"executeCommand", "readFile", "writeFile", "getConfig", "setConfig",
   "getActiveEditor", "showMessage", "getWorkspaceFolders", "listFiles", "openFile",
   "getOpenEditors", "getDiagnostics", "setSelection"}

Registration(name, method) == [name |-> name, method |-> method]

\* server.tool(name, ...) of the stdio adapter, with the method its callback gives
\* to callVSCode
StdioRegistrations ==
  {Registration("vscode_executeCommand", "executeCommand"),
   Registration("vscode_readFile", "readFile"),
   Registration("vscode_writeFile", "writeFile"),
   Registration("vscode_getConfig", "getConfig"),
   Registration("vscode_setConfig", "setConfig"),
   Registration("vscode_getActiveEditor", "getActiveEditor"),
   Registration("vscode_showMessage", "showMessage"),
   Registration("vscode_getWorkspaceFolders", "getWorkspaceFolders"),
   Registration("vscode_listFiles", "listFiles"),
   Registration("vscode_openFile", "openFile"),
   Registration("vscode_getOpenEditors", "getOpenEditors"),
   Registration("vscode_getDiagnostics", "getDiagnostics")}

\* this.mcpServer.tool(name, ...) of HttpMcpServer.registerTools
HttpRegistrations ==
  {Registration("vscode_executeCommand", "executeCommand"),
   Registration("vscode_readFile", "readFile"),
   Registration("vscode_writeFile", "writeFile"),
   Registration("vscode_getConfig", "getConfig"),
   Registration("vscode_setConfig", "setConfig"),
   Registration("vscode_getActiveEditor", "getActiveEditor"),
   Registration("vscode_showMessage", "showMessage"),
   Registration("vscode_getWorkspaceFolders", "getWorkspaceFolders"),
   Registration("vscode_listFiles", "listFiles"),
   Registration("vscode_openFile", "openFile"),
   Registration("vscode_getOpenEditors", "getOpenEditors"),
   Registration("vscode_getDiagnostics", "getDiagnostics"),
   Registration("vscode_setSelection", "setSelection")}

Adapters == {"stdio", "http"}
Registrations(adapter) == IF adapter = "stdio" THEN StdioRegistrations ELSE HttpRegistrations
ToolNames(adapter) == {r.name : r \in Registrations(adapter)}

\* the methods the callbacks registered under the name give to callVSCode
Bound(adapter, name) == {r.method : r \in {q \in Registrations(adapter) : q.name = name}}

\* a tools/call for the name reaches the adapter: the callback registered under
\* it runs, or there is none
ToolsCall(adapter, name) ==
  /\ Len(answers) < MaxAnswers
  /\ answers' = Append(answers, [e |-> "tool", adapter |-> adapter, name |-> name,
                                 found |-> name \in ToolNames(adapter),
                                 methods |-> Bound(adapter, name)])
  /\ UNCHANGED <<bridgeVars, fr, adapterVars, platform, ipcServer, httpMcpServer,
                 objects, netServers, entry, lastCall>>

Verbs == {"GET", "POST", "DELETE", "OPTIONS", "PUT"}
Urls == {"/mcp", "/", "/mcp/", "/other"}

\* the request callback of http.createServer: what it answers itself, or
\* "handleRequest" when it hands the request to the MCP transport
Route(verb, url) ==
  IF verb = "OPTIONS" THEN "204"
  ELSE IF url # "/mcp" THEN "404"
  ELSE "handleRequest"

HttpRequest(verb, url) ==
  /\ Len(answers) < MaxAnswers
  /\ answers' = Append(answers, [e |-> "http", verb |-> verb, url |-> url,
                                 status |-> Route(verb, url)])
  /\ UNCHANGED <<bridgeVars, fr, adapterVars, platform, ipcServer, httpMcpServer,
                 objects, netServers, entry, lastCall>>

\* the params of a request: null, a value that is no object, an object without
\* the fields the method reads, an object with them
ParamShapes == {"null", "number", "empty", "wellformed"}
Malformed == {"null", "number", "empty"}

\* the cases that never read params
NoParams == {"getActiveEditor", "getWorkspaceFolders", "getOpenEditors"}
\* the cases that give the destructured path to resolveUri at once
NeedPath == {"readFile", "writeFile", "openFile"}
\* the cases all of whose destructured fields have a default or are optional
AllOptional == {"getConfig", "listFiles", "getDiagnostics"}

\* how the promise of handleVSCodeRequest(method, params) can settle.  A case that
\* destructures params throws a TypeError on null; destructuring a number gives
\* undefined fields, as an object without the fields does; resolveUri throws on
\* an undefined path; an undefined command id, configuration key, message or
\* line is taken to be refused by the editor.  An operation of the editor on
\* well-formed arguments succeeds or fails.
Handle(method, params) ==
  IF method \notin Catalog THEN {"error"}
  ELSE IF method \in NoParams THEN {"result"}
  ELSE IF params = "null" THEN {"error"}
  ELSE IF params = "wellformed" THEN {"result", "error"}
  ELSE IF method \in NeedPath THEN {"error"}
  ELSE IF method \in AllOptional THEN {"result"}
  ELSE {"error"}

\* a request reaches the listener: result becomes { id, result }, a failure
\* becomes { id, error: { message } }
HandleRequest(method, params, kind) ==
  /\ Len(answers) < MaxAnswers
  /\ kind \in Handle(method, params)
  /\ answers' = Append(answers, [e |-> "rpc", method |-> method, params |-> params,
                                 kind |-> kind])
  /\ UNCHANGED <<bridgeVars, fr, adapterVars, platform, ipcServer, httpMcpServer,
                 objects, netServers, entry, lastCall>>

InitOutward ==
  /\ InitBridge /\ fr = NoFraming /\ InitAdapter /\ VSCODE_IPC_HOOK = ""
  /\ InitExtension /\ platform = "posix"

NextOutward ==
  \/ \E adapter \in Adapters : \E name \in ToolNames("stdio") \cup ToolNames("http") :
       ToolsCall(adapter, name)
  \/ \E verb \in Verbs : \E url \in Urls : HttpRequest(verb, url)
  \/ \E method \in Catalog \cup {"unknownMethod"} : \E params \in ParamShapes :
       \E kind \in {"result", "error"} : HandleRequest(method, params, kind)

SpecOutward == InitOutward /\ [][NextOutward]_vars

(***************************************************************************)
(* Properties                                                              *)
(***************************************************************************)
Entries(log, e) == {k \in 1..Len(log) : log[k].e = e}
IssuedIds(c) == {IdOf(n) : n \in 1..requestId[c]}
Settles(c, id) == {k \in Entries(clientLog[c], "settle") : clientLog[c][k].id = id}
SettledByResponse(c, id) == \E k \in Settles(c, id) : clientLog[c][k].on = "response"
Front(s) == SubSeq(s, 1, Len(s) - 1)

C2_SettledOnce ==
  \A c \in Conns : \A id \in Ids : Cardinality(Settles(c, id)) <= 1

\* a response settled a request, and the same response arrived once more
C2_Witness ==
  \E c \in Conns : \E k \in Entries(clientLog[c], "settle") :
    \E j \in Entries(clientLog[c], "ignore") :
      k < j /\ clientLog[c][j].id = clientLog[c][k].id /\ clientLog[c][k].on = "response"

C4_NoRequestHeldBack ==
  \A c \in Conns : \A i \in 1..Len(calls[c]) :
    \A k \in 1..Len(calls[c][i].rest) : ~ParseRequest(calls[c][i].rest[k]).ok

\* C5: a response settles the continuation registered under the response's id,
\* with that response's result or error, and no other: the table holds exactly the
\* issued ids that were not settled
C5_ByIdOnly ==
  \A c \in Conns :
    LET log == clientLog[c] IN
      /\ \A k \in Entries(log, "settle") :
           log[k].on = "response" =>
             /\ k > 1 /\ log[k - 1].e = "rx" /\ log[k - 1].id = log[k].id
             /\ log[k].val = log[k - 1].val
             /\ log[k].kind = (IF log[k - 1].kind = "error" THEN "reject" ELSE "resolve")
      /\ pendingRequests[c] = {id \in IssuedIds(c) : Settles(c, id) = {}}

\* B was issued after A, and B's response has settled B while A is pending
C5_Witness ==
  \E c \in Conns :
    /\ IdOf(1) \in pendingRequests[c]
    /\ SettledByResponse(c, IdOf(2))

\* C6: what the handler did is what the caller gets: a rejection with message m
\* is written as { id, error: { message: m } } and rejects the caller's promise
\* with exactly m; a value v is written as { id, result: v }
C6_OutcomeReachesCaller ==
  \A c \in Conns : \A k \in Entries(serverLog[c], "done") :
    LET done == serverLog[c][k]
        frame == ParseResponse(Front(serverLog[c][k + 1].text)).val
    IN /\ frame = [id |-> done.id, kind |-> done.kind, val |-> done.val]
       /\ \A j \in Settles(c, done.id) :
            (clientLog[c][j].on = "response" /\ done.kind = "error") =>
              clientLog[c][j].kind = "reject" /\ clientLog[c][j].val = done.val

HasField(text, key) == \E i \in 1..Len(text) : text[i] = key

\* C7: every frame the listener writes has exactly one of result and error
C7_ResultXorError ==
  \A c \in Conns : \A k \in Entries(serverLog[c], "write") :
    HasField(serverLog[c][k].text, RESULT)
      # HasField(serverLog[c][k].text, ERROR)

\* C8: once the whole stream has been received, the decoder has delivered exactly
\* the original sequence of messages, in order, however the stream was cut
C8_RoundTrip == fr.rest = <<>> => fr.out = fr.msgs

RECURSIVE Characters(_)
\* the characters a byte stream holds: each complete UTF-8 sequence is its
\* character, wherever the stream was cut; an unfinished last sequence is none yet
Characters(b) ==
  IF b = <<>> THEN <<>>
  ELSE IF Head(b) = "C3"
    THEN (IF Len(b) >= 2 THEN <<E9>> \o Characters(SubSeq(b, 3, Len(b))) ELSE <<>>)
  ELSE <<Head(b)>> \o Characters(Tail(b))

RECURSIVE JoinLines(_)
JoinLines(lines) ==
  IF lines = <<>> THEN <<>> ELSE Head(lines) \o <<NL>> \o JoinLines(Tail(lines))

\* C9: after each data event the buffer has no line terminator, and the lines
\* delivered so far, each with its terminator, followed by the buffer are exactly
\* the characters received: nothing but delimiters is dropped or duplicated
C9_BufferIsTrailingPart ==
  /\ \A i \in 1..Len(fr.buffer) : fr.buffer[i] # NL
  /\ JoinLines(fr.lines) \o fr.buffer = Characters(fr.rx)

Consumed(before, after) == SubSeq(before, 1, Len(before) - Len(after))
Drops(log) == Cardinality(Entries(log, "drop"))
AllReceived(c) == conn[c] = "open" /\ toServer[c] = <<>> /\ buffer[c] = <<>>
AllReturned(c) == conn[c] = "open" /\ toClient[c] = <<>> /\ clientBuffer[c] = <<>>
Queued(c) ==
  UNION {{ParseRequest(calls[c][i].rest[k]).val.id : k \in 1..Len(calls[c][i].rest)} :
           i \in 1..Len(calls[c])}
Dispatched(c) == {serverLog[c][k].id : k \in Entries(serverLog[c], "dispatch")}

\* C10: a step in which a decoder drops a segment that is no JSON leaves the
\* connection as it is and the buffer what the framing made it; and no well-formed
\* frame is lost, before or after it: once everything a client wrote has been
\* framed, each of its requests is dispatched or next in its chunk, and once
\* everything the listener wrote has been framed, each response was decoded
C10_MalformedIsDropped ==
  [][\A c \in Conns :
       /\ Drops(serverLog'[c]) > Drops(serverLog[c]) =>
            /\ conn'[c] = conn[c]
            /\ buffer'[c] = Decode(buffer[c], Consumed(toServer[c], toServer'[c])).buffer
       /\ Drops(clientLog'[c]) > Drops(clientLog[c]) =>
            /\ conn'[c] = conn[c]
            /\ clientBuffer'[c] =
                 Decode(clientBuffer[c], Consumed(toClient[c], toClient'[c])).buffer
       /\ AllReceived(c)' => IssuedIds(c)' \subseteq (Dispatched(c) \cup Queued(c))'
       /\ AllReturned(c)' =>
            \A k \in Entries(serverLog'[c], "write") :
              \E j \in Entries(clientLog'[c], "rx") :
                clientLog'[c][j].id = serverLog'[c][k].id
    ]_vars

\* the listener dropped a malformed segment and dispatched a request after it
C10_Witness ==
  \E c \in Conns : \E k \in Entries(serverLog[c], "drop") :
    \E j \in Entries(serverLog[c], "dispatch") : k < j /\ conn[c] = "open"

\* what a step appended to a client's history
Added(c) == (Len(clientLog[c]) + 1)..Len(clientLog'[c])

\* C11: the 'close' callback of a client with N pending requests rejects, in that
\* one step, each of the N continuations once with 'Connection closed', and leaves
\* the table empty
C11_AllRejectedOnClose ==
  [][\A c \in Conns :
       (conn[c] = "closing" /\ conn'[c] = "closed") =>
         /\ pendingRequests'[c] = {}
         /\ Len(clientLog'[c]) = Len(clientLog[c]) + Cardinality(pendingRequests[c])
         /\ \A id \in pendingRequests[c] :
              \E k \in Added(c) :
                clientLog'[c][k] =
                  Ev("settle", id, "reject", Str(CONNECTION_CLOSED), "close", <<>>)
    ]_vars

\* a connection closed with two requests pending
C11_Witness ==
  \E c \in Conns :
    /\ conn[c] = "closed"
    /\ Cardinality({k \in Entries(clientLog[c], "settle") : clientLog[c][k].on = "close"}) >= 2

\* C12: every id put into pendingRequests is taken out exactly once, by a response
\* or by the closure, and once the connection is closed the table holds no entry
C12_RemovedExactlyOnce ==
  \A c \in Conns :
    /\ \A id \in IssuedIds(c) \ pendingRequests[c] : Cardinality(Settles(c, id)) = 1
    /\ conn[c] = "closed" => pendingRequests[c] = {}

\* C14: a decoded response whose id has no entry in the table (never issued, or
\* settled before) is ignored: it settles nothing, the table loses exactly the ids
\* of the step's responses, the counter and the connection stay as they are, the
\* buffer is what the framing made it, and every response of the chunk is decoded
C14_UnknownIdIgnored ==
  [][\A c \in Conns :
       Added(c) # {} /\ conn[c] = "open" /\ conn'[c] = "open" =>
         LET rx == {k \in Added(c) : clientLog'[c][k].e = "rx"}
             d == Decode(clientBuffer[c], Consumed(toClient[c], toClient'[c]))
         IN /\ \A k \in rx :
                 (\/ clientLog'[c][k].id \notin pendingRequests[c]
                  \/ \E j \in rx : j < k /\ clientLog'[c][j].id = clientLog'[c][k].id)
                   => clientLog'[c][k + 1].e = "ignore"
            /\ pendingRequests'[c] = pendingRequests[c] \ {clientLog'[c][k].id : k \in rx}
            /\ requestId'[c] = requestId[c]
            /\ clientBuffer'[c] = d.buffer
            /\ Cardinality(rx)
                 = Cardinality({i \in 1..Len(d.lines) : ParseResponse(d.lines[i]).ok})
    ]_vars

\* a response with an unknown id was ignored and a later response settled a request
C14_Witness ==
  \E c \in Conns : \E j \in Entries(clientLog[c], "ignore") :
    \E k \in Entries(clientLog[c], "settle") :
      j < k /\ clientLog[c][k].on = "response" /\ conn[c] = "open"

\* C20: the counter of a client never decreases; a request raises it by one and
\* takes as its id the string of the new value, an id that no request in flight
\* and no request settled before has
C20_FreshIds ==
  [][\A c \in Conns :
       /\ requestId'[c] >= requestId[c]
       /\ requestId'[c] # requestId[c] =>
            /\ requestId'[c] = requestId[c] + 1
            /\ Cardinality(pendingRequests'[c] \ pendingRequests[c]) = 1
            /\ \A id \in pendingRequests'[c] \ pendingRequests[c] :
                 /\ id = IdOf(requestId'[c])
                 /\ Settles(c, id) = {}
                 /\ id \notin Dispatched(c)
    ]_vars

\* a client issued a second request after its first was settled
C20_Witness ==
  \E c \in Conns : requestId[c] = 2 /\ Settles(c, IdOf(1)) # {}

\* C13: after a connection has closed (its 'close' event was handled, with or
\* without an 'error' before it), neither IPCClient.socket nor the stdio
\* adapter's cached ipcClient keeps it.
C13_DeadConnectionDiscarded ==
  \A c \in Conns : conn[c] = "closed" => socket[c] = "null" /\ ipcClient # c

\* C17: under SpecStdio, whatever the interleaving of the tool invocations, at most
\* one IPCClient is constructed, at most one transport connection is opened, every
\* invocation that got a client got the cached one, and requests are issued on no
\* other connection.
C17_SingleFlight ==
  /\ Cardinality(clients) <= 1
  /\ Cardinality({c \in Conns : conn[c] # "none"}) <= 1
  /\ \A t \in Tools : tool[t].client # "null" => tool[t].client = ipcClient
  /\ \A c \in Conns : requestId[c] > 0 => c = ipcClient

\* two invocations called callVSCode before the connection was established: one
\* awaits connect(), the other got the cached client and has issued its request
C17_Witness ==
  \E c \in Conns : \E t, u \in Tools :
    /\ conn[c] = "connecting"
    /\ tool[t].pc = "connecting" /\ tool[t].client = c
    /\ tool[u].pc = "issued" /\ tool[u].client = c
    /\ requestId[c] = 1

\* C18: under SpecStdio, a request is issued only on a connection that is
\* established at that moment.
C18_ConnectedBeforeRequest ==
  [][\A c \in Conns : requestId'[c] # requestId[c] => conn[c] = "open"]_vars

\* C19: under SpecStdio, when VSCODE_IPC_HOOK is unset or empty, no IPCClient is
\* constructed, no socket is created, no connection is attempted, no request is
\* issued, the cached client stays null, and every tool invocation that has run
\* has returned an error result whose text is "Error: " and the message of the
\* error getIPCClient threw.
C19_FailsFast ==
  VSCODE_IPC_HOOK = "" =>
    /\ clients = {} /\ ipcClient = "null"
    /\ \A c \in Conns : socket[c] = "null" /\ conn[c] = "none" /\ requestId[c] = 0
    /\ \A t \in Tools :
         /\ tool[t].pc \in {"idle", "returned"}
         /\ tool[t].pc = "returned" =>
              tool[t].isError /\ tool[t].text = <<"Error: ">> \o NOT_SET

C19_Witness ==
  /\ VSCODE_IPC_HOOK = ""
  /\ \E t \in Tools : tool[t].pc = "returned"

hostVars == <<ipcServer, httpMcpServer, objects, netServers, entry>>

\* C15: under SpecHosts, a start invoked on a host whose ipcServer (for
\* startIPCServer) or httpMcpServer (for startHttpServer) is set, the first start
\* still awaiting or not, returns without throwing and constructs no object,
\* creates no server and changes nothing; a stop invoked when the variable is
\* null changes nothing.
C15_IdempotentStartStop ==
  [][lastCall'.n # lastCall.n =>
       /\ (lastCall'.op = "start" /\ Field(lastCall'.host, lastCall'.kind) # 0) =>
            lastCall'.outcome = "return" /\ UNCHANGED hostVars
       /\ (lastCall'.op = "stop" /\ Field(lastCall'.host, lastCall'.kind) = 0) =>
            UNCHANGED hostVars]_vars

\* a second start has returned while the server of the first is still binding
C15_Witness ==
  /\ lastCall.op = "start" /\ lastCall.outcome = "return"
  /\ \E i \in {Field(lastCall.host, lastCall.kind)} :
       i # 0 /\ objects[i].server # 0 /\ netServers[objects[i].server].state = "binding"

\* C16: under SpecHosts, a call of IPCServer.start while a listener is active on
\* the socket path creates no net.Server and leaves the entry at the path as it
\* is, and no start of an IPCServer fails.
C16_StartOnActiveEndpoint ==
  [][/\ (/\ lastCall'.n # lastCall.n
          /\ lastCall'.started # 0 /\ lastCall'.kind = "ipc"
          /\ ActiveListener("ipc")) =>
            netServers' = netServers /\ entry' = entry
     /\ \A n \in 1..Len(netServers') :
          netServers'[n].kind = "ipc" => netServers'[n].state # "failed"]_vars

\* C21: under SpecStdio, a tool invocation that has returned after its call
\* failed has an error result whose text carries the message of the original
\* error: the message the handler rejected with when the listener ran the
\* request, "Connection closed" when the close event rejected it.
C21_FailureSurfaces ==
  \A t \in Tools :
    (tool[t].pc = "returned" /\ tool[t].id # "") =>
      \E c \in {tool[t].client} :
        /\ \A k \in Entries(serverLog[c], "done") :
             (serverLog[c][k].id = tool[t].id /\ serverLog[c][k].kind = "error") =>
               /\ tool[t].isError
               /\ tool[t].text = <<"Error: ">> \o serverLog[c][k].val.s
        /\ \A j \in Settles(c, tool[t].id) :
             clientLog[c][j].on = "close" =>
               /\ tool[t].isError
               /\ tool[t].text = <<"Error: ">> \o CONNECTION_CLOSED

\* C22: under LiveListener, a connection is accepted only while a server
\* listens; no step, the stop of the server included, ends an open connection;
\* the stop leaves the invocations in progress, the buffers and the bytes in
\* flight as they are; and every request issued, before or after the stop, is
\* eventually settled by a response carrying its id.
C22_StopKeepsConnections ==
  /\ [][/\ \A c \in Conns :
             /\ (conn[c] = "none" /\ conn'[c] # "none") => ActiveListener("ipc")
             /\ conn[c] = "open" => conn'[c] = "open"
        /\ (lastCall'.n # lastCall.n /\ lastCall'.op = "stop") =>
             UNCHANGED <<calls, buffer, toServer, toClient, pendingRequests,
                         clientBuffer, requestId, socket>>]_vars
  /\ <>[](\A c \in Conns : \A id \in IssuedIds(c) : SettledByResponse(c, id))

\* the server was stopped while request 1 was with the handler and before request
\* 2 arrived, and both were answered
C22_Witness ==
  \E c \in Conns : \E s \in Entries(serverLog[c], "stop") :
    /\ \E k \in Entries(serverLog[c], "dispatch") : k < s /\ serverLog[c][k].id = IdOf(1)
    /\ \E k \in Entries(serverLog[c], "done") : k > s /\ serverLog[c][k].id = IdOf(1)
    /\ \E k \in Entries(serverLog[c], "dispatch") : k > s /\ serverLog[c][k].id = IdOf(2)
    /\ SettledByResponse(c, IdOf(1)) /\ SettledByResponse(c, IdOf(2))
    /\ conn[c] = "open"

Quiet(c) == AllReceived(c) /\ AllReturned(c) /\ calls[c] = <<>>

\* C23: under Spec, when a handler invocation fails, the listener writes on the
\* same connection a frame { id, error: { message } } with the id of the request
\* and the message of the failure, and the step leaves every connection open and
\* every buffer and every other connection's invocations as they were; and
\* whenever a connection is open with nothing in flight and no invocation in
\* progress, every request issued on it, after failures or not, has been
\* answered.
C23_HandlerFailureIsAnswered ==
  /\ [][\A c \in Conns : \A k \in (Len(serverLog[c]) + 1)..Len(serverLog'[c]) :
          (serverLog'[c][k].e = "done" /\ serverLog'[c][k].kind = "error") =>
            /\ serverLog'[c][k + 1].e = "write"
            /\ serverLog'[c][k + 1].on = c
            /\ ParseResponse(Front(serverLog'[c][k + 1].text)).val =
                 [id |-> serverLog'[c][k].id, kind |-> "error", val |-> serverLog'[c][k].val]
            /\ conn' = conn /\ buffer' = buffer
            /\ \A d \in Conns \ {c} : calls'[d] = calls[d]]_vars
  /\ [](\A c \in Conns : Quiet(c) =>
          \A id \in IssuedIds(c) : SettledByResponse(c, id))

\* on one connection request 1 failed, request 2 was dispatched afterwards, and
\* both were answered
C23_Witness ==
  \E c \in Conns : \E k \in Entries(serverLog[c], "done") :
    /\ serverLog[c][k].id = IdOf(1) /\ serverLog[c][k].kind = "error"
    /\ \E j \in Entries(serverLog[c], "dispatch") : j > k /\ serverLog[c][j].id = IdOf(2)
    /\ SettledByResponse(c, IdOf(1)) /\ SettledByResponse(c, IdOf(2))
    /\ Quiet(c)

Occurrences(s, x) == Cardinality({i \in 1..Len(s) : s[i] = x})

\* C24: under SpecFraming, the text of every message written, whatever strings
\* its params, result or error message hold, has no line terminator in it, the
\* stream written is these texts each followed by one line terminator, so it has
\* as many line terminators as messages and ends with one.
C24_OneLinePerFrame ==
  LET stream == fr.rx \o fr.rest
  IN /\ \A i \in 1..Len(fr.msgs) : Occurrences(MessageText(fr.side, fr.msgs[i]), NL) = 0
     /\ stream = Wire(fr.side, fr.msgs)
     /\ Occurrences(stream, NL) = Len(fr.msgs)
     /\ fr.msgs # <<>> => stream[Len(stream)] = NL

\* a message with a line terminator in a string has been written and received
C24_Witness ==
  /\ \E i \in 1..Len(fr.msgs) :
       \/ fr.side = "server" /\ fr.msgs[i].params = Str(TWO_LINES)
       \/ fr.side = "client" /\ fr.msgs[i].val = Str(TWO_LINES)
  /\ fr.rx # <<>> /\ fr.rest = <<>>

ToolAnswers == {k \in 1..Len(answers) : answers[k].e = "tool"}
HttpAnswers == {k \in 1..Len(answers) : answers[k].e = "http"}
RpcAnswers == {k \in 1..Len(answers) : answers[k].e = "rpc"}

\* C25: under SpecOutward, a call of a tool name that either adapter registers
\* finds a tool at the adapter it is sent to (the adapters register the same
\* names), that tool gives exactly one method of the catalog to callVSCode, and no
\* other tool of that adapter gives the same method.
C25_SameToolSet ==
  \A k \in ToolAnswers :
    /\ answers[k].found
    /\ Cardinality(answers[k].methods) = 1
    /\ \A method \in answers[k].methods :
         /\ method \in Catalog
         /\ Cardinality({r \in Registrations(answers[k].adapter) : r.method = method}) = 1

\* C26: under SpecOutward, a request is handed to the MCP transport only when its
\* URL is /mcp, and a request for any other URL is answered 404, whatever its
\* HTTP method.
C26_OnlyMcpPath ==
  \A k \in HttpAnswers :
    /\ answers[k].status = "handleRequest" => answers[k].url = "/mcp"
    /\ answers[k].url # "/mcp" => answers[k].status = "404"

\* C27: under SpecOutward, a request for a method of the catalog whose params are
\* null, no object, or an object without the fields, is answered with an error.
C27_MalformedParamsFail ==
  \A k \in RpcAnswers :
    (answers[k].method \in Catalog /\ answers[k].params \in Malformed) =>
      answers[k].kind = "error"

Received(c, id) == {k \in Entries(clientLog[c], "rx") : clientLog[c][k].id = id}

\* C28: under Spec, a request issued for which no response with its id has been
\* received and which no close event has rejected is in the pending table and
\* unsettled, however many other steps were taken; a settlement is always that
\* of a response with the request's id, received just before, or that of the
\* close event; and an entry leaves the table only in a step that receives a
\* response with its id or in the step of the close event.
C28_PendingUntilAnsweredOrClosed ==
  /\ [](\A c \in Conns : \A id \in IssuedIds(c) :
          /\ (Received(c, id) = {} /\ \A k \in Settles(c, id) : clientLog[c][k].on # "close")
               => id \in pendingRequests[c] /\ Settles(c, id) = {}
          /\ \A k \in Settles(c, id) :
               \/ clientLog[c][k].on = "close"
               \/ /\ clientLog[c][k].on = "response"
                  /\ clientLog[c][k - 1].e = "rx" /\ clientLog[c][k - 1].id = id)
  /\ [][\A c \in Conns : \A id \in pendingRequests[c] \ pendingRequests'[c] :
          \/ \E k \in Added(c) : clientLog'[c][k].e = "rx" /\ clientLog'[c][k].id = id
          \/ conn[c] = "closing" /\ conn'[c] = "closed"]_vars

\* request 1 has been with the handler while request 2 was answered; nothing is
\* in flight, and request 1 is still pending
C28_Witness ==
  \E c \in Conns :
    /\ conn[c] = "open" /\ toServer[c] = <<>> /\ toClient[c] = <<>>
    /\ Len(calls[c]) = 1 /\ calls[c][1].req.id = IdOf(1)
    /\ IdOf(1) \in pendingRequests[c] /\ Settles(c, IdOf(1)) = {}
    /\ SettledByResponse(c, IdOf(2))

Issuers == {t \in Tools : tool[t].id # ""}

\* C29: under SpecStdio, at most one transport connection is ever opened and a
\* connection that has ended is never opened again; the requests written are as
\* many as the tool invocations that have issued one, each under its own id; a
\* request is written only in the step in which an invocation that has not yet
\* issued one does so; and an invocation that has issued its request or has
\* returned, with a failure or not, never goes back to issue another.
C29_NoReconnectNoRetry ==
  /\ [](/\ Cardinality({c \in Conns : conn[c] # "none"}) <= 1
        /\ Sum(requestId, Conns) = Cardinality(Issuers)
        /\ \A t, u \in Issuers :
             (t # u /\ tool[t].client = tool[u].client) => tool[t].id # tool[u].id)
  /\ [][/\ \A c \in Conns :
             /\ conn[c] \in {"closing", "closed"} => conn'[c] \in {"closing", "closed"}
             /\ requestId'[c] # requestId[c] =>
                  /\ requestId'[c] = requestId[c] + 1
                  /\ \E t \in Tools : /\ tool[t].pc = "got" /\ tool[t].id = ""
                                      /\ tool'[t].pc = "issued" /\ tool'[t].client = c
        /\ \A t \in Tools :
             /\ tool[t].pc = "issued" => tool'[t].pc \in {"issued", "returned"}
             /\ tool[t].pc = "returned" => tool'[t] = tool[t]]_vars

\* an invocation has returned the failure of its request, which the close event
\* rejected, and the connection stays closed
C29_Witness ==
  \E t \in Tools :
    /\ tool[t].pc = "returned" /\ tool[t].isError /\ tool[t].id # ""
    /\ tool[t].text = <<"Error: ">> \o CONNECTION_CLOSED
    /\ conn[tool[t].client] = "closed"

\* C30: under Spec, the step of request() that writes the frame of a new id is
\* the step that puts the id in the pending table, and the id was not in use
\* before; so the first response received with the id of a request issued finds
\* its entry (it is settled by that response, unless the close event had rejected
\* it already), and a response with the id of a request issued is ignored only
\* after a settlement of that id, never because its entry was not there yet.
C30_RegisteredBeforeWritten ==
  /\ [][\A c \in Conns :
          requestId'[c] # requestId[c] =>
            LET id == IdOf(requestId'[c])
            IN /\ id \notin IssuedIds(c)
               /\ id \notin pendingRequests[c]
               /\ id \in pendingRequests'[c]
               /\ Len(toServer'[c]) > Len(toServer[c]) => conn[c] \in {"connecting", "open"}
               /\ conn[c] \in {"connecting", "open"} => Len(toServer'[c]) > Len(toServer[c])]_vars
  /\ [](\A c \in Conns : \A id \in IssuedIds(c) :
          /\ \A k \in Received(c, id) :
               (\A j \in Received(c, id) : k <= j) =>
                 \/ clientLog[c][k + 1].e = "settle" /\ clientLog[c][k + 1].id = id
                 \/ \E j \in Settles(c, id) : j < k /\ clientLog[c][j].on = "close"
          /\ \A k \in Entries(clientLog[c], "ignore") :
               clientLog[c][k].id = id => \E j \in Settles(c, id) : j < k)

\* the response of request 1 was received in the first 'data' event after the
\* write, found its entry and settled the request; nothing was ignored
C30_Witness ==
  \E c \in Conns :
    /\ requestId[c] = 1
    /\ splits = 0 /\ injected = 0
    /\ Received(c, IdOf(1)) # {}
    /\ SettledByResponse(c, IdOf(1))
    /\ Entries(clientLog[c], "ignore") = {}
    /\ pendingRequests[c] = {}

\* C31: under Spec, the buffer of a connection is empty when the connection is
\* accepted; it changes only in a 'data' event of its own connection, to what the
\* framing makes of its old content and the bytes of that event; and a 'data'
\* event, a handler's completion, a failure or the closure of one connection
\* leaves the buffer of every other connection as it was.
C31_OwnBuffer ==
  [][\A c \in Conns :
       /\ conn[c] = "none" /\ conn'[c] = "open" => buffer'[c] = <<>>
       /\ buffer'[c] # buffer[c] =>
            /\ conn[c] = "open" /\ conn'[c] = "open"
            /\ Len(toServer'[c]) < Len(toServer[c])
            /\ buffer'[c] = Decode(buffer[c], Consumed(toServer[c], toServer'[c])).buffer
       /\ (\/ conn'[c] # conn[c]
           \/ Len(toServer'[c]) < Len(toServer[c])
           \/ calls'[c] # calls[c]) =>
            \A d \in Conns \ {c} : buffer'[d] = buffer[d]
    ]_vars

\* one connection holds the first part of a frame while the other connection,
\* accepted after that part arrived, has been closed
C31_Witness ==
  \E c \in Conns : \E d \in Conns \ {c} :
    /\ conn[c] = "open" /\ buffer[c] # <<>> /\ serverLog[c] = <<>>
    /\ conn[d] = "closed" /\ buffer[d] = <<>>

\* C32: under SpecHosts, whenever the variable ipcServer or httpMcpServer of a
\* host is set, the server of the object it holds is listening or its listen is
\* still in progress; in particular the variable is null once start() has
\* rejected.
C32_SetOnlyWhileStartingOrListening ==
  \A h \in Hosts : \A kind \in Kinds :
    Running(Field(h, kind)) =>
      /\ objects[Field(h, kind)].server # 0
      /\ netServers[objects[Field(h, kind)].server].state \in {"binding", "listening"}

WritesAdded(c) ==
  {k \in (Len(serverLog[c]) + 1)..Len(serverLog'[c]) : serverLog'[c][k].e = "write"}

\* C33: under Spec, a step in which the listener writes on a connection writes
\* one response: its text is one complete frame (a response followed by the only
\* line terminator in it), and the bytes of the open connection's stream after
\* the step are those before it followed by the bytes of that frame, whatever the
\* order in which the handler invocations of the connection complete; the stream
\* grows in no other way than by such a write or by a segment of the peer.
C33_WholeFrameWrites ==
  [][\A c \in Conns :
       /\ WritesAdded(c) # {} =>
            /\ Cardinality(WritesAdded(c)) = 1
            /\ \A k \in WritesAdded(c) :
                 LET text == serverLog'[c][k].text
                 IN /\ Occurrences(text, NL) = 1 /\ text[Len(text)] = NL
                    /\ ParseResponse(Front(text)).ok
                    /\ ParseResponse(Front(text)).val.id = serverLog'[c][k].id
                    /\ conn[c] = "open" => toClient'[c] = toClient[c] \o Utf8Encode[text]
                    /\ conn[c] # "open" => toClient'[c] = toClient[c]
       /\ (toClient'[c] # toClient[c] /\ Len(toClient'[c]) >= Len(toClient[c])) =>
            \/ Cardinality(WritesAdded(c)) = 1
            \/ injected' = injected + 1
    ]_vars

\* two handler invocations of one connection, for requests of different chunks,
\* were pending together and completed in the reverse order; both frames are in
\* the stream, that of request 2 first
C33_Witness ==
  \E c \in Conns :
    /\ conn[c] = "open" /\ calls[c] = <<>> /\ injected = 0
    /\ \E j, k \in Writes(c) :
         /\ j < k /\ serverLog[c][j].id = IdOf(2) /\ serverLog[c][k].id = IdOf(1)
         /\ toClient[c] = Utf8Encode[serverLog[c][j].text] \o Utf8Encode[serverLog[c][k].text]

(***************************************************************************)
(* One IPCClient with its caller: connect, request with or without a       *)
(* socket, disconnect, and the events of its connection                    *)
(***************************************************************************)
Thrown(c) == Cardinality(Entries(clientLog[c], "throw"))

\* request(method, params) while this.socket is null: throw new Error('Not
\* connected'), which rejects the promise of the async function
RequestRejected(c) ==
  /\ NotConnected(socket[c])
  /\ Events + Thrown(c) < MaxEvents
  /\ clientLog' = [clientLog EXCEPT ![c] =
                     Append(@, Ev("throw", "", "reject", Str(NOT_CONNECTED), "request", <<>>))]
  /\ UNCHANGED <<socket, requestId, pendingRequests, clientBuffer, buffer, calls, conn,
                 toServer, toClient, serverLog, injected, splits, fr, adapterVars,
                 extensionVars>>

\* disconnect(): this.socket.destroy() and this.socket = null; the destroyed
\* socket delivers no more data, the bytes in flight are lost and its 'close'
\* event is emitted afterwards
Disconnect(c) ==
  /\ socket[c] = "set"
  /\ socket' = [socket EXCEPT ![c] = "null"]
  /\ conn' = [conn EXCEPT ![c] = IF @ \in {"connecting", "open"} THEN "closing" ELSE @]
  /\ toServer' = [toServer EXCEPT ![c] = <<>>]
  /\ toClient' = [toClient EXCEPT ![c] = <<>>]
  /\ clientLog' = [clientLog EXCEPT ![c] =
                     Append(@, Ev("disconnect", "", "", Undefined, "", <<>>))]
  /\ UNCHANGED <<requestId, pendingRequests, clientBuffer, buffer, calls, serverLog,
                 injected, splits, fr, adapterVars, extensionVars>>

NextClient ==
  \E c \in {"c1"} :
    \/ Connect(c)
    \/ RequestRejected(c)
    \/ \E m \in Methods : \E p \in RequestParams : Request(c, m, p)
    \/ \E n \in 1..Len(toServer[c]) : ServerData(c, n)
    \/ \E i \in 1..Len(calls[c]) :
         \E o \in HandlerOutcomes(calls[c][i].req.method) : HandlerSettle(c, i, o)
    \/ \E n \in 1..Len(toClient[c]) : ClientData(c, n)
    \/ ClientClose(c)
    \/ TransportFail(c)
    \/ Disconnect(c)

LiveClient == Init /\ [][NextClient]_vars /\ Fairness

Disconnected(c) == socket[c] = "null" /\ Entries(clientLog[c], "disconnect") # {}

\* C34: under LiveClient, (1) a request() made while the client holds no socket,
\* before connect or after disconnect, rejects with 'Not connected' and changes
\* nothing else: the counter, the pending table, the buffer, the socket and the
\* bytes written stay as they are; (2) while the client holds no socket its
\* counter does not move, no id is added to its table and nothing is written;
\* (3) once the 'close' event of a disconnected client has run, every request
\* that was unsettled at the disconnect has been rejected, once, with
\* 'Connection closed'; and (4) a disconnect is always followed by that event,
\* which leaves the table empty.
C34_NotConnectedAndDisconnect ==
  /\ [][\A c \in Conns :
          /\ Thrown(c)' # Thrown(c) =>
               /\ NotConnected(socket[c])
               /\ clientLog'[c] = Append(clientLog[c],
                    Ev("throw", "", "reject", Str(NOT_CONNECTED), "request", <<>>))
               /\ requestId' = requestId /\ pendingRequests' = pendingRequests
               /\ toServer' = toServer /\ clientBuffer' = clientBuffer
               /\ socket' = socket /\ conn' = conn
          /\ (NotConnected(socket[c]) /\ conn'[c] = conn[c]) =>
               /\ requestId'[c] = requestId[c]
               /\ pendingRequests'[c] = pendingRequests[c]
               /\ toServer'[c] = toServer[c]
          /\ NotConnected(socket[c]) =>
               /\ requestId'[c] = requestId[c]
               /\ pendingRequests'[c] \subseteq pendingRequests[c]
               /\ Len(toServer'[c]) <= Len(toServer[c])]_vars
  /\ [](\A c \in Conns : \A k \in Entries(clientLog[c], "disconnect") :
          conn[c] = "closed" =>
            \A id \in IssuedIds(c) :
              (\A j \in Settles(c, id) : j > k) =>
                /\ Cardinality(Settles(c, id)) = 1
                /\ \A j \in Settles(c, id) :
                     /\ clientLog[c][j].on = "close" /\ clientLog[c][j].kind = "reject"
                     /\ clientLog[c][j].val = Str(CONNECTION_CLOSED))
  /\ \A c \in Conns :
       Disconnected(c) ~> (conn[c] = "closed" /\ pendingRequests[c] = {})

DispatchesAdded(c) ==
  {k \in (Len(serverLog[c]) + 1)..Len(serverLog'[c]) : serverLog'[c][k].e = "dispatch"}

\* C35: under Spec, (1) a 'data' event of the listener invokes the handler for
\* the first request of its chunk only and keeps the frames after it; (2) the
\* completion of a handler invocation writes the response and only then invokes
\* the handler for the next request of the same chunk, in frame order, keeping
\* the frames after that one; (3) the handler is invoked in no other step; and
\* (4) no request held behind a pending invocation of its chunk has been
\* dispatched: so the responses to the requests of one chunk are written in
\* request order.
C35_ChunkInOrder ==
  /\ [][\A c \in Conns :
          /\ (Len(toServer'[c]) < Len(toServer[c]) /\ conn'[c] = conn[c]) =>
               LET d == Decode(buffer[c], Consumed(toServer[c], toServer'[c]))
                   reqs == Delivered("server", d.lines)
               IN /\ WritesAdded(c) = {}
                  /\ Cardinality(DispatchesAdded(c)) = IF reqs = <<>> THEN 0 ELSE 1
                  /\ reqs = <<>> => calls'[c] = calls[c]
                  /\ reqs # <<>> =>
                       /\ \A k \in DispatchesAdded(c) : serverLog'[c][k].id = reqs[1].id
                       /\ Len(calls'[c]) = Len(calls[c]) + 1
                       /\ SubSeq(calls'[c], 1, Len(calls[c])) = calls[c]
                       /\ calls'[c][Len(calls'[c])].req = reqs[1]
                       /\ Delivered("server", calls'[c][Len(calls'[c])].rest) = Tail(reqs)
          /\ \A w \in WritesAdded(c) :
               \E i \in 1..Len(calls[c]) :
                 LET rest == Delivered("server", calls[c][i].rest)
                 IN /\ calls[c][i].req.id = serverLog'[c][w].id
                    /\ \A k \in DispatchesAdded(c) :
                         k > w /\ rest # <<>> /\ serverLog'[c][k].id = rest[1].id
                    /\ Cardinality(DispatchesAdded(c)) = IF rest = <<>> THEN 0 ELSE 1
                    /\ rest = <<>> => calls'[c] = RemoveAt(calls[c], i)
                    /\ rest # <<>> =>
                         /\ Len(calls'[c]) = Len(calls[c])
                         /\ calls'[c][i].req = rest[1]
                         /\ Delivered("server", calls'[c][i].rest) = Tail(rest)
          /\ DispatchesAdded(c) # {} =>
               \/ WritesAdded(c) # {}
               \/ Len(toServer'[c]) < Len(toServer[c]) /\ conn'[c] = conn[c]]_vars
  /\ [](\A c \in Conns : \A i \in 1..Len(calls[c]) :
          LET rest == Delivered("server", calls[c][i].rest)
          IN \A n \in 1..Len(rest) :
               \A k \in Entries(serverLog[c], "dispatch") : serverLog[c][k].id # rest[n].id)

\* two requests arrived in one chunk: the handler has been invoked for the first,
\* whose invocation is pending, and the second is held behind it, not dispatched
C35_Witness ==
  \E c \in Conns :
    /\ conn[c] = "open" /\ requestId[c] = 2 /\ toServer[c] = <<>>
    /\ Len(calls[c]) = 1 /\ calls[c][1].req.id = IdOf(1)
    /\ Len(Delivered("server", calls[c][1].rest)) = 1
    /\ Delivered("server", calls[c][1].rest)[1].id = IdOf(2)
    /\ Cardinality(Entries(serverLog[c], "dispatch")) = 1

(***************************************************************************)
(* A peer that sends empty and whitespace-only segments among the frames   *)
(***************************************************************************)
\* delimited segments that are empty or hold only whitespace
BlankSegments == {<<NL>>, <<SP, NL>>, <<SP, SP, NL>>}

\* the listener receives a blank segment
BlankToServer(c, seg) ==
  /\ conn[c] = "open"
  /\ Events < MaxEvents
  /\ seg \in BlankSegments
  /\ injected' = injected + 1
  /\ toServer' = [toServer EXCEPT ![c] = @ \o seg]
  /\ UNCHANGED <<socket, requestId, pendingRequests, clientBuffer, buffer, calls, conn,
                 toClient, serverLog, clientLog, splits, fr, adapterVars, extensionVars>>

\* the client receives a blank segment
BlankToClient(c, seg) ==
  /\ conn[c] = "open"
  /\ Events < MaxEvents
  /\ seg \in BlankSegments
  /\ injected' = injected + 1
  /\ toClient' = [toClient EXCEPT ![c] = @ \o seg]
  /\ UNCHANGED <<socket, requestId, pendingRequests, clientBuffer, buffer, calls, conn,
                 toServer, serverLog, clientLog, splits, fr, adapterVars, extensionVars>>

NextBlank ==
  \E c \in {"c1"} :
    \/ Connect(c)
    \/ \E m \in Methods : \E p \in RequestParams : Request(c, m, p)
    \/ \E seg \in BlankSegments : BlankToServer(c, seg)
    \/ \E seg \in BlankSegments : BlankToClient(c, seg)
    \/ \E n \in 1..Len(toServer[c]) : ServerData(c, n)
    \/ \E i \in 1..Len(calls[c]) :
         \E o \in HandlerOutcomes(calls[c][i].req.method) : HandlerSettle(c, i, o)
    \/ \E n \in 1..Len(toClient[c]) : ClientData(c, n)

SpecBlank == Init /\ [][NextBlank]_vars

White(line) == \A i \in 1..Len(line) : line[i] = SP
Unparsable(side, lines) ==
  {i \in 1..Len(lines) :
     /\ ~White(lines[i])
     /\ ~(IF side = "server" THEN ParseRequest(lines[i]).ok ELSE ParseResponse(lines[i]).ok)}
Parsable(side, lines) ==
  {i \in 1..Len(lines) :
     /\ ~White(lines[i])
     /\ IF side = "server" THEN ParseRequest(lines[i]).ok ELSE ParseResponse(lines[i]).ok}
DropsAdded(before, after) ==
  Cardinality({k \in (Len(before) + 1)..Len(after) : after[k].e = "drop"})

\* C36: under SpecBlank, a 'data' event of the listener whose segments are all
\* empty or whitespace-only adds nothing to the listener's log, invokes no
\* handler, writes nothing, and leaves the buffer as the framing makes it; in any
\* 'data' event and any continuation of the loop only segments that are not blank
\* are reported as unparsable; and a 'data' event of the client adds to its log
\* two entries for each parsable segment that is not blank, one for each
\* unparsable one and none for a blank one, and, when all its segments are
\* blank, leaves the pending table as it was.
C36_BlankSkipped ==
  [][\A c \in Conns :
       /\ (Len(toServer'[c]) < Len(toServer[c]) /\ conn'[c] = conn[c]) =>
            LET d == Decode(buffer[c], Consumed(toServer[c], toServer'[c]))
            IN /\ buffer'[c] = d.buffer
               /\ DropsAdded(serverLog[c], serverLog'[c])
                    <= Cardinality(Unparsable("server", d.lines))
               /\ (\A i \in 1..Len(d.lines) : White(d.lines[i])) =>
                    /\ serverLog'[c] = serverLog[c] /\ calls'[c] = calls[c]
                    /\ toClient'[c] = toClient[c]
                    /\ pendingRequests' = pendingRequests /\ clientLog' = clientLog
       /\ \A w \in WritesAdded(c) :
            \E i \in 1..Len(calls[c]) :
              /\ calls[c][i].req.id = serverLog'[c][w].id
              /\ DropsAdded(serverLog[c], serverLog'[c])
                   <= Cardinality(Unparsable("server", calls[c][i].rest))
              /\ buffer' = buffer
       /\ (Len(toClient'[c]) < Len(toClient[c]) /\ conn'[c] = conn[c]) =>
            LET d == Decode(clientBuffer[c], Consumed(toClient[c], toClient'[c]))
            IN /\ clientBuffer'[c] = d.buffer
               /\ Len(clientLog'[c]) - Len(clientLog[c])
                    = 2 * Cardinality(Parsable("client", d.lines))
                        + Cardinality(Unparsable("client", d.lines))
               /\ (\A i \in 1..Len(d.lines) : White(d.lines[i])) =>
                    /\ pendingRequests' = pendingRequests /\ clientLog' = clientLog
                    /\ toServer' = toServer /\ serverLog' = serverLog
    ]_vars

\* a blank segment has been received and consumed while a request is with the
\* handler: the only entry of either log is the dispatch of that request, the
\* request is pending and the buffers are empty
C36_Witness ==
  \E c \in Conns :
    /\ conn[c] = "open" /\ injected = 1 /\ requestId[c] = 1
    /\ toServer[c] = <<>> /\ toClient[c] = <<>>
    /\ buffer[c] = <<>> /\ clientBuffer[c] = <<>>
    /\ Len(serverLog[c]) = 1 /\ serverLog[c][1].e = "dispatch"
    /\ clientLog[c] = <<>> /\ pendingRequests[c] = {IdOf(1)}

====
